---------------------------- MODULE Spec2Model ----------------------------
(***************************************************************************)
(* Model of aMusing (src/amusing/score): the notation tree with its        *)
(* visibility encoding (mscx.py), the frame sequencer and the worker-pool  *)
(* dispatch loop (animate.py).                                             *)
(*                                                                         *)
(* Three specifications share the module:                                  *)
(*   SpecTree  arbitrary sequences of MElement visibility calls on a tree  *)
(*   SpecSeq   _invisibilize_measures followed by the _get_trees generator *)
(*   SpecPool  generate_frames: the dispatch loop and the _convert workers *)
(***************************************************************************)
EXTENDS Integers, Sequences, FiniteSets, TLC

VARIABLES
    tree,       \* the live document tree (root MElement)
    hung,       \* TRUE once a call has been entered that never returns
    touched     \* SpecTree: the <<id, call>> pairs of the elements the
                \* last call was made on while they were locked

treeVars == <<tree, hung, touched>>

VARIABLES
    run,        \* the arguments and the score of one generate_frames call
    mpc,        \* where the main thread is in generate_frames
    produced,   \* number of frames the generator has yielded so far
    held,       \* the frame the dispatch loop holds (<<>> when none)
    threads,    \* the list `threads`: per slot, the thread object in it
    workers,    \* per started thread (numbered in start order): its
                \* arguments and where it is in _convert
    joined,     \* number of slots the join loop has passed
    files,      \* names present in outdir: <<frame, page>>, page 0 for the
                \* canonical frm<frame>.png
    temps       \* per slot, the temp documents present: slot -> content

poolVars ==
    <<run, mpc, produced, held, threads, workers, joined, files, temps>>

VARIABLES
    amusing,    \* the Amusing object after read_score and add_job: the
                \* fields the sequencer reads
    gen,        \* the _get_trees generator: where it is and its locals
    frames      \* the (page, tree) pairs yielded so far, in order

seqVars == <<amusing, gen, frames>>

VARIABLES
    notes,      \* the Note objects constructed so far: the object with
                \* identity i has the value notes[i]
    compared    \* the last comparison a == b made: the two objects, their
                \* values then, and the result (<<>> when none)

noteVars == <<notes, compared>>

VARIABLES
    scan        \* SpecScan: one voice under _visibilize_measure: the
                \* arguments of the call and a record of the last scan

scanVars == <<scan>>

vars == <<treeVars, poolVars, seqVars, noteVars, scanVars>>

(***************************************************************************)
(* Bounds of the model.                                                    *)
(***************************************************************************)
\* Largest number of nodes a tree may grow to in SpecTree (the calls that
\* append a 'visible' marker are only made while the tree is smaller).
MaxNodes == 6
\* Largest number of lock_visibility() calls made in SpecTree.
MaxLocks == 1
\* SpecPool: largest pool size, number of frames and page count.
MaxThreads == 2
MaxFrames == 3
MaxPages == 2

(***************************************************************************)
(* mscx.py: tag families.                                                  *)
(***************************************************************************)
CHORD_SUB == <<"Accidental", "Stem", "NoteDot", "Note", "Hook">>

GRACENOTE == {"grace4", "acciaccatura", "appoggiatura", "grace8after",
              "grace16", "grace16after", "grace32", "grace32after"}

INVISIBILIZE == {"Accidental", "Articulation", "BarLine", "Beam", "Clef",
                 "Dynamic", "Fermata", "Fingering", "HairPin", "Hook",
                 "KeySig", "Note", "Ottava", "Pedal", "Rest", "Segment",
                 "Slur", "SlurSegment", "StaffText", "Stem", "StemSlash",
                 "SystemText", "Tempo", "TextLine", "Tie", "TieSegment",
                 "TimeSig", "Tremolo", "Trill"}

UNPRINTABLE == {"visible", "irregular", "stretch", "startRepeat",
                "endRepeat", "MeasureNumber", "LayoutBreak", "noOffset",
                "vspacerUp", "vspacerDown", "vspacerFixed"}

\* iter(tag=None): the filter that matches every tag.
AnyTag == "*"

(***************************************************************************)
(* An element is a record [id, tag, attrib, text, locked, kids]; kids is    *)
(* the ordered list of children and id stands for the identity of the      *)
(* Python object (a sequence of numbers; identities are only compared).    *)
(* A position in a tree is named by its path from the root: the sequence   *)
(* of child positions.                                                     *)
(***************************************************************************)

\* The empty attribute dictionary.
NoAttrib == <<>>

\* MElement.__init__: a fresh element; visibility_locked is tag == 'Measure'.
MElement(id, tag, attrib) ==
    [id |-> id, tag |-> tag, attrib |-> attrib, text |-> "",
     locked |-> (tag = "Measure"), kids |-> <<>>]

\* An element of an XML document as written in the file.
Xml(tag, attrib, text, kids) ==
    [tag |-> tag, attrib |-> attrib, text |-> text, kids |-> kids]

\* A leaf <tag>text</tag> and an element with children only.
XLeaf(tag, text) == Xml(tag, NoAttrib, text, <<>>)
XNode(tag, kids) == Xml(tag, NoAttrib, "", kids)

\* parse_custom_etree: the TreeBuilder makes one MElement per XML element.
\* The i-th child of the element with identity id gets identity id.(10+i);
\* elements allocated later under it get a last component below 10.
RECURSIVE Parse(_, _)
Parse(x, id) ==
    [MElement(id, x.tag, x.attrib) EXCEPT
        !.text = x.text,
        !.kids = [i \in 1..Len(x.kids) |-> Parse(x.kids[i], Append(id, 10 + i))]]

\* MElement.new_element(tag, text) with visible=True; code tells the
\* allocation site under the parent with identity id.
new_element(id, code, tag, text) ==
    [MElement(Append(id, code), tag, NoAttrib) EXCEPT !.text = text]

\* MElement.append_new(tag)
append_new(n, code, tag) ==
    [n EXCEPT !.kids = Append(n.kids, new_element(n.id, code, tag, ""))]

RECURSIVE NodeAt(_, _)
NodeAt(n, p) ==
    IF p = <<>> THEN n ELSE NodeAt(n.kids[Head(p)], Tail(p))

RECURSIVE ReplaceAt(_, _, _)
ReplaceAt(n, p, new) ==
    IF p = <<>> THEN new
    ELSE [n EXCEPT !.kids[Head(p)] = ReplaceAt(n.kids[Head(p)], Tail(p), new)]

RECURSIVE PathsOf(_)
PathsOf(n) ==
    {<<>>} \cup UNION { { <<i>> \o q : q \in PathsOf(n.kids[i]) } :
                        i \in 1..Len(n.kids) }

RECURSIVE SizeOf(_)
SizeOf(n) ==
    IF n.kids = <<>> THEN 1
    ELSE 1 + SizeOf(n.kids[1]) + SizeOf([n EXCEPT !.kids = Tail(n.kids)]) - 1

RECURSIVE NodesOf(_)
NodesOf(n) == {n} \cup UNION { NodesOf(n.kids[i]) : i \in 1..Len(n.kids) }

RECURSIVE IdsOf(_)
IdsOf(n) == {n.id} \cup UNION { IdsOf(n.kids[i]) : i \in 1..Len(n.kids) }

\* The node of tree t with identity i.
NodeById(t, i) == CHOOSE m \in NodesOf(t) : m.id = i

Front(s) == SubSeq(s, 1, Len(s) - 1)
Last(s) == s[Len(s)]
RemoveAt(s, i) == SubSeq(s, 1, i - 1) \o SubSeq(s, i + 1, Len(s))
IsPrefix(p, q) == Len(p) <= Len(q) /\ SubSeq(q, 1, Len(p)) = p

\* Element.find(tag): the position of the first direct child with the tag,
\* 0 when there is none.
FindChild(n, tag) ==
    LET hits == { i \in 1..Len(n.kids) : n.kids[i].tag = tag }
    IN  IF hits = {} THEN 0
        ELSE CHOOSE i \in hits : \A j \in hits : i <= j

\* MElement.contains
contains(n, tag) == FindChild(n, tag) # 0

\* MElement._is_visible / is_visible: visible unless the first 'visible'
\* child has text '0'.
is_visible(n) ==
    LET i == FindChild(n, "visible")
    IN  i = 0 \/ n.kids[i].text # "0"

is_protected(n) == n.locked

\* lock_visibility that leaves the lock as it is.
lock_visibility_skip(n) == n

lock_visibility(n) == [n EXCEPT !.locked = TRUE]

\* set_visible with the lock not consulted.
set_visible_nolock(n) ==
    IF ~is_visible(n)
    THEN [n EXCEPT !.kids = RemoveAt(n.kids, FindChild(n, "visible"))]
    ELSE n

\* MElement.set_visible: remove the hiding marker, unless locked.
set_visible(n) ==
    IF is_protected(n) THEN n
    ELSE IF ~is_visible(n)
         THEN [n EXCEPT !.kids = RemoveAt(n.kids, FindChild(n, "visible"))]
         ELSE n

\* The identity of the k-th 'visible' child of the element with identity id.
MarkerId(id, k) == Append(id, k)

\* The identity of the next 'visible' child allocated under n.
FreshId(n) ==
    MarkerId(n.id,
             Cardinality({ i \in 1..Len(n.kids) : n.kids[i].tag = "visible" })
               + 1)

\* MElement.set_invisible: append a marker <visible>0</visible>, unless
\* locked or already hidden.
set_invisible(n) ==
    IF is_protected(n) THEN n
    ELSE IF ~is_visible(n) THEN n
    ELSE [n EXCEPT !.kids =
              Append(n.kids,
                     [MElement(FreshId(n), "visible", NoAttrib)
                        EXCEPT !.text = "0"])]

\* invisibilize that locks what it hides.
invisibilize_locked(n) ==
    IF n.tag \in UNPRINTABLE THEN n
    ELSE IF n.tag \in INVISIBILIZE THEN lock_visibility(set_invisible(n))
    ELSE n

\* MElement.invisibilize
invisibilize(n) ==
    IF n.tag \in UNPRINTABLE THEN n
    ELSE IF n.tag \in INVISIBILIZE THEN set_invisible(n)
    ELSE n

(***************************************************************************)
(* Element.iter(tag) with a call made on every element it yields.  The     *)
(* iterator is lazy: it yields an element, the caller mutates it, and only *)
(* then does the iterator read that element's children, so children        *)
(* appended or removed by the call are (not) visited.  A call changes the  *)
(* yielded element only (its marker), so the walk of a subtree is: the     *)
(* call on its root, then the walk of each child the root has after the    *)
(* call, in order.                                                         *)
(***************************************************************************)

\* The room of a walk that may grow the tree without limit.
Unlimited == -1

\* add_implied_children, lines 109-116: on an element with the tag `on`,
\* a child with the tag `sub` is appended unless there is one.
imply(n, on, code, sub) ==
    IF n.tag = on /\ ~contains(n, sub) THEN append_new(n, code, sub) ELSE n

\* add_implied_children, lines 118-119
imply_slash(n) ==
    IF contains(n, "acciaccatura") /\ ~contains(n, "StemSlash")
    THEN append_new(n, 9, "StemSlash") ELSE n

\* MElement.add_implied_children
add_implied_children(n) ==
    imply_slash(
        imply(imply(imply(imply(n, "Chord", 5, "Stem"),
                          "Chord", 6, "Beam"),
                    "Chord", 7, "Hook"),
              "Tie", 8, "TieSegment"))

\* _invisibilize_measures, lines 264-267: the body of the first loop.
lock_or_imply(n) ==
    IF ~is_visible(n) THEN lock_visibility(n) ELSE add_implied_children(n)

\* The call made on a yielded element.
Apply(kind, n) ==
    CASE kind = "set_visible"   -> set_visible(n)
      [] kind = "set_invisible" -> set_invisible(n)
      [] kind = "invisibilize"  -> invisibilize(n)
      [] kind = "lock_or_imply" -> lock_or_imply(n)

\* The walk of the subtree n.  room is the number of nodes the tree may
\* still grow by: when a call needs more, the walk is cut there (cut |->
\* TRUE) and the subtree is the one reached so far.  seen collects the
\* identities of the elements the iterator yielded.
RECURSIVE Walk(_, _, _, _, _)
RECURSIVE WalkKids(_, _, _, _, _, _)

\* The walk of child i of n has returned r.
Walked(n, i, r, tag, kind) ==
    IF r.cut
    THEN [node |-> [n EXCEPT !.kids[i] = r.node], cut |-> TRUE,
          seen |-> r.seen, room |-> r.room]
    ELSE WalkKids([n EXCEPT !.kids[i] = r.node], i + 1, tag, kind,
                  r.room, r.seen)

\* for e in self: yield from e.iter(tag), from child i of n on.
WalkKids(n, i, tag, kind, room, seen) ==
    IF i > Len(n.kids)
    THEN [node |-> n, cut |-> FALSE, seen |-> seen, room |-> room]
    ELSE Walked(n, i, Walk(n.kids[i], tag, kind, room, seen), tag, kind)

\* The call on the yielded element n has made n2 of it.
Called(n, n2, tag, kind, room, seen) ==
    IF Len(n2.kids) > Len(n.kids)
    THEN IF room = 0
         THEN [node |-> n, cut |-> TRUE, seen |-> seen, room |-> room]
         ELSE WalkKids(n2, 1, tag, kind,
                       IF room > 0 THEN room - 1 ELSE room, seen)
    ELSE WalkKids(n2, 1, tag, kind, room, seen)

Walk(n, tag, kind, room, seen) ==
    IF tag = AnyTag \/ n.tag = tag
    THEN Called(n, Apply(kind, n), tag, kind, room, seen \cup {n.id})
    ELSE WalkKids(n, 1, tag, kind, room, seen)

\* The walk r of the subtree at path p of t, put back into t.
Grafted(t, p, r) ==
    [tree |-> ReplaceAt(t, p, r.node), cut |-> r.cut, seen |-> r.seen,
     room |-> r.room]

\* for subelement in self.iter(tag): call(subelement), self being at path p.
ForIter(t, p, tag, kind, room, seen) ==
    Grafted(t, p, Walk(NodeAt(t, p), tag, kind, room, seen))

\* MElement.set_visible_all(tag) on the element at path p.
set_visible_all(t, p, tag) ==
    ForIter(t, p, tag, "set_visible", 0, {})

\* MElement.set_invisible_all(tag) on the element at path p.
set_invisible_all(t, p, tag, room) ==
    ForIter(t, p, tag, "set_invisible", room, {})

\* MElement.get_chord_subelements followed by a call on each element:
\* for tag in CHORD_SUB: for element in self.iter(tag): call(element).
RECURSIVE ForChordSub(_, _, _, _, _, _)

\* r is the result of the loop for the tag CHORD_SUB[k].
ChordSubDone(r, p, k, kind) ==
    IF r.cut THEN r
    ELSE ForChordSub(r.tree, p, k + 1, kind, r.room, r.seen)

ForChordSub(t, p, k, kind, room, seen) ==
    IF k > Len(CHORD_SUB)
    THEN [tree |-> t, cut |-> FALSE, seen |-> seen, room |-> room]
    ELSE ChordSubDone(ForIter(t, p, CHORD_SUB[k], kind, room, seen),
                      p, k, kind)

\* MElement.set_visible_chord / set_invisible_chord (the caller has checked
\* that the element is a Chord; on another tag they raise MElementTagError).
set_visible_chord(t, p) == ForChordSub(t, p, 1, "set_visible", 0, {})

set_invisible_chord(t, p, room) ==
    ForChordSub(t, p, 1, "set_invisible", room, {})

(***************************************************************************)
(* Durations.  The program computes with floats whose unit is 1/1024 of a  *)
(* whole note (Note(1).value = 1024).  The model computes the same values  *)
(* as exact fractions <<numerator, denominator>> in lowest terms; the      *)
(* tolerance 0.01 of the comparisons is the fraction 1/100.                *)
(***************************************************************************)
RECURSIVE GCD(_, _)
GCD(a, b) == IF b = 0 THEN a ELSE GCD(b, a % b)

Abs(x) == IF x < 0 THEN -x ELSE x

\* The fraction n/d (d # 0) in lowest terms with a positive denominator.
Q(n, d) ==
    LET g == GCD(Abs(n), Abs(d))
        sg == IF d < 0 THEN -1 ELSE 1
    IN  <<sg * (n \div g), sg * (d \div g)>>

QInt(n) == <<n, 1>>
QAdd(a, b) == Q(a[1] * b[2] + b[1] * a[2], a[2] * b[2])
QSub(a, b) == Q(a[1] * b[2] - b[1] * a[2], a[2] * b[2])
QMul(a, b) == Q(a[1] * b[1], a[2] * b[2])
QDiv(a, b) == Q(a[1] * b[2], a[2] * b[1])
QLt(a, b) == a[1] * b[2] < b[1] * a[2]
QLe(a, b) == a[1] * b[2] <= b[1] * a[2]
QFloor(a) == a[1] \div a[2]
QMax(a, b) == IF QLt(a, b) THEN b ELSE a

\* Python's a % b for b > 0: a - b * floor(a / b).
QMod(a, b) == QSub(a, QMul(b, QInt(QFloor(QDiv(a, b)))))

\* The tolerance 0.01 of _last_element_in_measure and _visibilize_tremolo.
Epsilon == Q(1, 100)

\* Python's round(x): the nearest integer, a tie going to the even one.
PyRoundTruncating(x) == QFloor(x)

PyRound(x) ==
    LET f == QFloor(x)
        r == QSub(x, QInt(f))
    IN  IF QLt(r, Q(1, 2)) THEN f
        ELSE IF QLt(Q(1, 2), r) THEN f + 1
        ELSE IF f % 2 = 0 THEN f ELSE f + 1

\* int(text) for the decimal numerals of the documents.
MaxNumeral == 128

int(text) == CHOOSE k \in 0..MaxNumeral : ToString(k) = text

\* Note(note_type).value = 1024 / note_type
NoteValue(note_type) == QDiv(QInt(1024), note_type)

\* Note.from_text(text).value
from_text(text) ==
    CASE text = "breve"   -> NoteValue(Q(1, 2))
      [] text = "whole"   -> NoteValue(QInt(1))
      [] text = "half"    -> NoteValue(QInt(2))
      [] text = "quarter" -> NoteValue(QInt(4))
      [] text = "eighth"  -> NoteValue(QInt(8))
      [] OTHER -> \* int(text[:-2])
           NoteValue(QInt(CHOOSE k \in 0..MaxNumeral :
                            \E suffix \in {"th", "nd", "st", "rd"} :
                                ToString(k) \o suffix = text))

\* sum(1/2**i for i in range(dots + 1))
RECURSIVE DotSum(_)
DotSum(dots) ==
    IF dots = 0 THEN QInt(1) ELSE QAdd(DotSum(dots - 1), Q(1, 2 ^ dots))

\* Element.find(tag).text for a child that exists.
ChildText(n, tag) == n.kids[FindChild(n, tag)].text

\* MElement.duration_value(timesig) of a Chord or Rest:
\* (dotted, duration_type)
duration_value(n, timesig) ==
    LET dotted == IF FindChild(n, "dots") = 0 THEN QInt(1)
                  ELSE DotSum(int(ChildText(n, "dots")))
        dtt == ChildText(n, "durationType")
    IN  [dotted |-> dotted,
         duration_type |-> IF dtt = "measure" THEN timesig
                           ELSE from_text(dtt)]

is_tuplet(n) == n.tag = "Tuplet" \/ n.tag = "endTuplet"

\* MElement.tuplet_value of a Tuplet or endTuplet
tuplet_value(n) ==
    IF n.tag = "Tuplet"
    THEN Q(int(ChildText(n, "normalNotes")), int(ChildText(n, "actualNotes")))
    ELSE QInt(1)

\* MElement.duration_offset of a location: eval(fractions) * Note(1).value.
\* The text of <fractions> is kept as its tokens <<sign, n, "/", d>>.
duration_offset(n) ==
    LET f == ChildText(n, "fractions")
        v == Q(int(f[2]), int(f[4]))
    IN  QMul(IF f[1] = "-" THEN QSub(QInt(0), v) ELSE v, NoteValue(QInt(1)))

\* MElement.tremolo_subtype(duration_type) of a Tremolo.  The subtype text
\* is kept as <<first character, rest>>, e.g. <<"c", "16">>.
tremolo_subtype(n, duration_type) ==
    LET subtype_text == ChildText(n, "subtype")
        tremolo_timediff == int(subtype_text[2])
    IN  [subtype_c |-> subtype_text[1],
         value |-> NoteValue(QMul(QInt(tremolo_timediff),
                      QMax(QInt(1),
                           QDiv(NoteValue(QInt(4)), duration_type))))]

is_unprintable(n) == n.tag \in UNPRINTABLE

\* is_gracenote that finds no grace note.
is_gracenote_never(n) == FALSE

is_gracenote(n) == \E i \in 1..Len(n.kids) : n.kids[i].tag \in GRACENOTE

\* The test of the loop's end with the tolerance on the other side.
last_element_early(duration, max_duration) ==
    QLt(QSub(max_duration, Epsilon), duration)

\* Amusing._last_element_in_measure
last_element_in_measure(duration, max_duration) ==
    QLt(max_duration, QSub(duration, Epsilon))

\* MElement.get_next_chord(voice, index): the position of the next Chord
\* after index, 0 when there is none (the caller then fails to unpack None).
get_next_chord(voice, index) ==
    LET hits == { i \in (index + 1)..Len(voice.kids) :
                    voice.kids[i].tag = "Chord" }
    IN  IF hits = {} THEN 0
        ELSE CHOOSE i \in hits : \A j \in hits : i <= j

(***************************************************************************)
(* SpecTree: a parsed fragment Measure > Chord > (Note, Stem), on          *)
(* which the caller makes any sequence of the visibility calls of          *)
(* MElement, each on any element of the tree.                              *)
(***************************************************************************)

Opt(b, x) == IF b THEN <<x>> ELSE <<>>

\* The parsed fragment: mh tells whether the Measure carries
\* <visible>0</visible>; nt is the text of the Note's <visible> child
\* ("" for none).
Fragment(mh, nt) ==
    Parse(XNode("Measure",
            Opt(mh, XLeaf("visible", "0")) \o
            << XNode("Chord",
                 << XNode("Note", Opt(nt # "", XLeaf("visible", nt))),
                    XNode("Stem", <<>>) >>) >>),
          <<11>>)

Fragments ==
    { Fragment(mh, nt) : mh \in BOOLEAN, nt \in {"", "0", "1"} }

\* The tag filters the caller passes to the *_all calls.
TagFilters == {AnyTag, "Note"}

Room == IF SizeOf(tree) < MaxNodes THEN MaxNodes - SizeOf(tree) ELSE 0

LockedIn(t, ids) == { m.id : m \in { x \in NodesOf(t) : x.locked /\ x.id \in ids } }

\* The variables of a specification that does not use them.
NoPool ==
    /\ run = <<>> /\ mpc = "off" /\ produced = 0 /\ held = <<>>
    /\ threads = <<>> /\ workers = <<>> /\ joined = 0
    /\ files = {} /\ temps = {}

NoTree == tree = <<>> /\ hung = FALSE /\ touched = {}

NoSeq == amusing = <<>> /\ gen = <<>> /\ frames = <<>>

NoNote == notes = <<>> /\ compared = <<>>

NoScan == scan = <<>>

InitTree ==
    /\ tree \in Fragments
    /\ hung = FALSE
    /\ touched = {}
    /\ NoPool
    /\ NoSeq
    /\ NoNote
    /\ NoScan

\* One call on the single element at p.
CallOne(p, kind) ==
    LET n  == NodeAt(tree, p)
        n2 == Apply(kind, n)
    IN  /\ ~hung
        /\ Len(n2.kids) > Len(n.kids) => Room > 0
        /\ tree' = ReplaceAt(tree, p, n2)
        /\ touched' = LockedIn(tree, {n.id}) \X {kind}
        /\ UNCHANGED <<hung, poolVars, seqVars, noteVars, scanVars>>

SetVisible(p) == CallOne(p, "set_visible")

SetInvisible(p) == CallOne(p, "set_invisible")

Invisibilize(p) == CallOne(p, "invisibilize")

LockVisibility(p) ==
    /\ ~hung
    /\ ~NodeAt(tree, p).locked
    /\ Cardinality({ m \in NodesOf(tree) : m.locked /\ m.tag # "Measure" })
         < MaxLocks
    /\ tree' = ReplaceAt(tree, p, lock_visibility(NodeAt(tree, p)))
    /\ touched' = {}
    /\ UNCHANGED <<hung, poolVars, seqVars, noteVars, scanVars>>

\* A call that iterates: r is what the walk returns.  A walk that is cut is
\* a call that never returns when the markers it appends are themselves
\* yielded by its iterator (tag filter None or 'visible'); any other call
\* that would outgrow MaxNodes is not made.
CallAll(r, kind, diverges) ==
    /\ ~hung
    /\ r.cut => diverges
    /\ tree' = r.tree
    /\ hung' = r.cut
    /\ touched' = LockedIn(tree, r.seen) \X {kind}
    /\ UNCHANGED <<poolVars, seqVars, noteVars, scanVars>>

SetVisibleAll(p, tag) ==
    CallAll(set_visible_all(tree, p, tag), "set_visible", FALSE)

SetInvisibleAll(p, tag) ==
    CallAll(set_invisible_all(tree, p, tag, Room), "set_invisible",
            tag \in {AnyTag, "visible"})

SetVisibleChord(p) ==
    /\ NodeAt(tree, p).tag = "Chord"
    /\ CallAll(set_visible_chord(tree, p), "set_visible", FALSE)

SetInvisibleChord(p) ==
    /\ NodeAt(tree, p).tag = "Chord"
    /\ CallAll(set_invisible_chord(tree, p, Room), "set_invisible", FALSE)

NextTree ==
    \/ \E p \in PathsOf(tree) : SetVisible(p)
    \/ \E p \in PathsOf(tree) : SetInvisible(p)
    \/ \E p \in PathsOf(tree) : Invisibilize(p)
    \/ \E p \in PathsOf(tree) : LockVisibility(p)
    \/ \E p \in PathsOf(tree), tag \in TagFilters : SetVisibleAll(p, tag)
    \/ \E p \in PathsOf(tree), tag \in TagFilters : SetInvisibleAll(p, tag)
    \/ \E p \in PathsOf(tree) : SetVisibleChord(p)
    \/ \E p \in PathsOf(tree) : SetInvisibleChord(p)

SpecTree == InitTree /\ [][NextTree]_vars

\* The identities of an element's children, in order.
KidIds(n) == [i \in 1..Len(n.kids) |-> n.kids[i].id]

\* C1: once an element's visibility is locked (by lock_visibility, or from
\* construction for a Measure), no call of set_visible, set_invisible,
\* set_visible_all, set_invisible_all, set_visible_chord,
\* set_invisible_chord or invisibilize, on it or on any other element,
\* changes its is_visible() result or its own list of children; it also
\* stays locked.
C1_LockedUnchanged ==
    [][\A n \in NodesOf(tree) : \A m \in NodesOf(tree') :
          (n.locked /\ m.id = n.id) =>
                /\ m.locked
                /\ is_visible(m) = is_visible(n)
                /\ KidIds(m) = KidIds(n)]_treeVars

\* C1 witness: the last call was a set_visible made on a locked hidden
\* element (directly, or as one of the elements a set_visible_all or
\* set_visible_chord iterates over), and the element is still hidden.
C1_Witness ==
    \E n \in NodesOf(tree) :
        /\ n.locked
        /\ ~is_visible(n)
        /\ <<n.id, "set_visible">> \in touched

(***************************************************************************)
(* SpecPool: Amusing.generate_frames.  The frame generator is taken as a   *)
(* finite source of M frames, each with its page number; the main thread   *)
(* runs the baseline conversion, the dispatch loop, the join loop and the  *)
(* cleanup, and every started thread runs _convert.                        *)
(***************************************************************************)

\* The digits of thread_index formatted with {thread_index:02d}.
RECURSIVE Digits(_)
Digits(i) == IF i < 10 THEN <<i>> ELSE Append(Digits(i \div 10), i % 10)

Pad2(i) == IF i < 10 THEN <<0, i>> ELSE Digits(i)

\* temp_path with every slot formatted as slot 0.
temp_path_shared(thread_index) ==
    <<"__temp__", ".amusing_thread", "_Thread-", Pad2(0), ".mscx">>

\* Amusing.temp_path
temp_path(thread_index) ==
    <<"__temp__", ".amusing_thread", "_Thread-", Pad2(thread_index), ".mscx">>

\* frame_index_to_path(index, page): page 0 stands for page=None.
frame_index_to_path(index, page) == <<index, page>>

\* The files the external renderer leaves in outdir for one export of a
\* document of P pages to frm<frame>.png.
Rendered(naming, frame, P) ==
    IF naming = "single"
    THEN { frame_index_to_path(frame, 0) }
    ELSE { frame_index_to_path(frame, i) : i \in 1..P }

\* _convert, lines 94-99: for i in range(1, _page_num + 1), from i on.
\* ok is FALSE when os.rename or os.remove raised FileNotFoundError.
RECURSIVE PostLoop(_, _, _, _, _)
PostLoop(fs, frame, page, i, P) ==
    LET to_file == frame_index_to_path(frame, 0)
        paged   == frame_index_to_path(frame, i)
    IN  IF i > P THEN [files |-> fs, ok |-> TRUE]
        ELSE IF i = page
        THEN LET fs1 == fs \ {to_file}
             IN  IF paged \notin fs1
                 THEN [files |-> fs1, ok |-> FALSE]
                 ELSE PostLoop((fs1 \ {paged}) \cup {to_file},
                               frame, page, i + 1, P)
        ELSE IF paged \notin fs
             THEN [files |-> fs, ok |-> FALSE]
             ELSE PostLoop(fs \ {paged}, frame, page, i + 1, P)

\* Thread.is_alive: from start() until _convert returns or raises.
is_alive(w) == w.pc \notin {"done", "raised"}

\* The slots (positions of `threads`) whose thread is not alive; 0 is a
\* Thread() that was never started.
IdleSlotsAll(th, ws) == 1..Len(th)

IdleSlots(th, ws) ==
    { s \in 1..Len(th) : th[s] = 0 \/ ~is_alive(ws[th[s]]) }

\* The slot taken without asking is_alive.
FirstIdleBlind(th, ws) == 1

\* next((t for t in threads if not t.is_alive()), None), threads.index(...)
FirstIdle(th, ws) ==
    CHOOSE s \in IdleSlots(th, ws) : \A r \in IdleSlots(th, ws) : s <= r

\* The non-decreasing page sequences of m frames over pages 1..P.
PageSeqs(m, P) ==
    { q \in [1..m -> 1..P] : \A i \in 1..(m - 1) : q[i] <= q[i + 1] }

\* A call _convert(index, frame, page, tree, alpha_only) at its start.
Conversion(index, frame, page, alpha_only) ==
    [slot |-> index, frame |-> frame, page |-> page, alpha |-> alpha_only,
     pc |-> "write"]

InitPool ==
    /\ NoTree
    /\ NoSeq
    /\ NoNote
    /\ NoScan
    /\ \E N \in 1..MaxThreads, M \in 1..MaxFrames, P \in 1..MaxPages,
          f0 \in {0, 1}, dt \in BOOLEAN :
         \E naming \in (IF P = 1 THEN {"single", "multi"} ELSE {"multi"}),
            q \in PageSeqs(M, P) :
           run = [threads |-> N, M |-> M, page_num |-> P, pages |-> q,
                  naming |-> naming, frame0 |-> f0, alpha_only |-> TRUE,
                  delete_temp |-> dt]
    \* generate_frames up to _invisibilize_measures' call of
    \* _convert(0, 0, 1, self._tree, True)
    /\ mpc = "baseline"
    /\ workers = << Conversion(0, 0, 1, TRUE) >>
    /\ produced = 0
    /\ held = <<>>
    /\ threads = <<>>
    /\ joined = 0
    /\ files = {}
    /\ temps = {}

\* One step of the conversion workers[k]: _write, _export, the page loop,
\* the alpha reduction.
ConvertStep(k) ==
    LET w == workers[k]
        to_file == frame_index_to_path(w.frame, 0)
    IN  /\ is_alive(w)
        /\ CASE w.pc = "write" ->
                 /\ temps' = { t \in temps : t[1] # temp_path(w.slot) }
                                \cup { <<temp_path(w.slot), w.frame>> }
                 /\ workers' = [workers EXCEPT ![k].pc = "export"]
                 /\ UNCHANGED files
             [] w.pc = "export" ->
                 /\ files' = files \cup
                               Rendered(run.naming, w.frame, run.page_num)
                 /\ workers' = [workers EXCEPT ![k].pc = "pages"]
                 /\ UNCHANGED temps
             [] w.pc = "pages" ->
                 LET r == PostLoop(files, w.frame, w.page, 1, run.page_num)
                 IN  /\ files' = r.files
                     /\ workers' = [workers EXCEPT ![k].pc =
                            IF ~r.ok THEN "raised"
                            ELSE IF w.alpha THEN "alpha" ELSE "done"]
                     /\ UNCHANGED temps
             [] w.pc = "alpha" ->
                 \* cv2.imread gives None for a missing file and the
                 \* subscript raises
                 /\ workers' = [workers EXCEPT ![k].pc =
                        IF to_file \in files THEN "done" ELSE "raised"]
                 /\ UNCHANGED <<files, temps>>

\* The synchronous baseline conversion, run by the main thread.
Baseline ==
    /\ mpc = "baseline"
    /\ ConvertStep(1)
    /\ mpc' = CASE workers'[1].pc = "done"   -> "next"
                [] workers'[1].pc = "raised" -> "aborted"
                [] OTHER                     -> "baseline"
    \* line 330: threads = [Thread() for _ in range(self.threads)]
    /\ threads' = IF mpc' = "next" THEN [s \in 1..run.threads |-> 0]
                  ELSE threads
    /\ UNCHANGED <<run, produced, held, joined>>
    /\ UNCHANGED <<treeVars, seqVars, noteVars, scanVars>>

\* The for statement asks the generator for the next frame (line 331).
Generate ==
    /\ mpc = "next"
    /\ IF produced < run.M
       THEN /\ held' = [frame |-> run.frame0 + produced,
                        page |-> run.pages[produced + 1]]
            /\ produced' = produced + 1
            /\ mpc' = "poll"
       ELSE /\ mpc' = "join"
            /\ UNCHANGED <<held, produced>>
    /\ UNCHANGED <<run, threads, workers, joined, files, temps>>
    /\ UNCHANGED <<treeVars, seqVars, noteVars, scanVars>>

\* Lines 332-337: a slot is idle; the held frame is handed to a new thread
\* in it.  While no slot is idle the loop sleeps and nothing changes.
Dispatch ==
    /\ mpc = "poll"
    /\ IdleSlots(threads, workers) # {}
    /\ LET s == FirstIdle(threads, workers)
       IN  /\ workers' = Append(workers,
                 Conversion(s - 1, held.frame, held.page, run.alpha_only))
           /\ threads' = [threads EXCEPT ![s] = Len(workers) + 1]
    /\ held' = <<>>
    /\ mpc' = "next"
    /\ UNCHANGED <<run, produced, joined, files, temps>>
    /\ UNCHANGED <<treeVars, seqVars, noteVars, scanVars>>

\* A pool thread runs one step of its _convert.
Worker(k) ==
    /\ k > 1
    /\ ConvertStep(k)
    /\ UNCHANGED <<run, mpc, produced, held, threads, joined>>
    /\ UNCHANGED <<treeVars, seqVars, noteVars, scanVars>>

\* A join that returns without waiting for the thread to end.
JoinNoWait ==
    /\ mpc = "join"
    /\ IF joined = Len(threads)
       THEN mpc' = "cleanup" /\ UNCHANGED joined
       ELSE IF threads[joined + 1] = 0
            THEN mpc' = "aborted" /\ UNCHANGED joined
            ELSE joined' = joined + 1 /\ UNCHANGED mpc
    /\ UNCHANGED <<run, produced, held, threads, workers, files, temps>>
    /\ UNCHANGED <<treeVars, seqVars, noteVars, scanVars>>

\* Lines 339-340: thread.join() for the next slot.  Joining a Thread() that
\* was never started raises RuntimeError.
Join ==
    /\ mpc = "join"
    /\ IF joined = Len(threads)
       THEN mpc' = "cleanup" /\ UNCHANGED joined
       ELSE LET t == threads[joined + 1]
            IN  IF t = 0
                THEN mpc' = "aborted" /\ UNCHANGED joined
                ELSE /\ ~is_alive(workers[t])
                     /\ joined' = joined + 1
                     /\ UNCHANGED mpc
    /\ UNCHANGED <<run, produced, held, threads, workers, files, temps>>
    /\ UNCHANGED <<treeVars, seqVars, noteVars, scanVars>>

\* Lines 342-345: remove_file(temp_path(i)) for every slot.
Cleanup ==
    /\ mpc = "cleanup"
    /\ temps' = IF run.delete_temp
                THEN { t \in temps :
                         \A i \in 0..(run.threads - 1) : t[1] # temp_path(i) }
                ELSE temps
    /\ mpc' = "done"
    /\ UNCHANGED <<run, produced, held, threads, workers, joined, files>>
    /\ UNCHANGED <<treeVars, seqVars, noteVars, scanVars>>

NextPool ==
    \/ Baseline
    \/ Generate
    \/ Dispatch
    \/ \E k \in 1..Len(workers) : Worker(k)
    \/ Join
    \/ Cleanup

SpecPool == InitPool /\ [][NextPool]_vars

\* The pool threads (every conversion but the baseline) that are running.
Running == { k \in 2..Len(workers) : workers[k].pc \notin {"done", "raised"} }

\* C2: at every point of generate_frames the number of threads that were
\* started and have not finished is at most the pool size.
C2_ActiveAtMostPool == Cardinality(Running) <= run.threads

\* C2 witness: more frames than slots, every slot holds a running thread
\* and the dispatch loop is polling with a further frame in hand.
C2_Witness ==
    /\ run.M > run.threads
    /\ run.threads > 1
    /\ Cardinality(Running) = run.threads
    /\ mpc = "poll"

\* The main thread has ended, normally or by an exception, and no thread
\* is running any more.
RunOver == mpc \in {"done", "aborted"} /\ Running = {}

\* C3 (as claimed): the n-th frame gets index frame0 + n and, when the run
\* is over, frm<frame0+n>.png exists for each of the M frames, under either
\* naming convention of the renderer.
C3_AllFramesOnDisk ==
    /\ \A k \in 2..Len(workers) : workers[k].frame = run.frame0 + (k - 2)
    /\ RunOver =>
         \A n \in 0..(run.M - 1) :
             frame_index_to_path(run.frame0 + n, 0) \in files

\* Frames the generator has yielded and whose conversion has not finished:
\* the one the dispatch loop holds, and those of the running threads.
InFlight == (IF held = <<>> THEN 0 ELSE 1) + Cardinality(Running)

\* C9 (as claimed): at most N frames are in flight.
C9_InFlightAtMostPool == InFlight <= run.threads

\* C9 (amended): at most N + 1 frames are in flight, the N being converted
\* and the one the dispatch loop holds while it polls; the generator is
\* only advanced while the loop holds no frame.
C9_InFlightAtMostPoolPlusOne ==
    /\ InFlight <= run.threads + 1
    /\ (held # <<>>) <=> (mpc = "poll")

\* C9 witness: all N slots are busy and the generator has been advanced
\* to yield one more frame.
C9_Witness ==
    /\ Cardinality(Running) = run.threads
    /\ held # <<>>
    /\ InFlight = run.threads + 1

\* The conversions (baseline included) that have started and not ended.
Converting == { k \in 1..Len(workers) : workers[k].pc \notin {"done", "raised"} }

\* C10: no two conversions running at the same time have the same temp
\* document: a slot is only handed to a new thread when the thread that
\* held it has ended, and the baseline conversion on slot 0 has ended
\* before any pool thread exists.
C10_NoSharedTemp ==
    /\ \A k, l \in Converting :
          k # l => temp_path(workers[k].slot) # temp_path(workers[l].slot)
    /\ \A k \in 2..Len(workers) :
          LET prev == { j \in 1..(k - 1) : workers[j].slot = workers[k].slot }
          IN  workers[k].pc = "write" => \A j \in prev : j \notin Converting

\* C10 witness: two threads are converting at once, one of them in a slot
\* an earlier thread has used, after the baseline has used slot 0.
C10_Witness ==
    \E k, l \in Converting :
        /\ k # l
        /\ \E j \in 2..(k - 1) : workers[j].slot = workers[k].slot

\* The paths of the temp documents on disk.
TempPaths(ts) == { t[1] : t \in ts }

\* Every slot holds a thread that was started and has ended.
AllJoined ==
    /\ joined = run.threads
    /\ \A i \in 1..Len(threads) :
          threads[i] # 0 /\ ~is_alive(workers[threads[i]])

\* C11: a step that deletes a temp document is taken by the cleanup of
\* generate_frames, with the generator exhausted, every slot's thread
\* joined and no conversion running.
C11_DeleteAfterJoin ==
    [][(TempPaths(temps) \ TempPaths(temps') # {}) =>
          /\ mpc = "cleanup"
          /\ produced = run.M
          /\ held = <<>>
          /\ AllJoined
          /\ Converting = {}]_vars

\* C11 witness: a run of more than one pool thread has deleted its temp
\* documents.
C11_Witness ==
    /\ mpc = "done"
    /\ run.delete_temp
    /\ run.threads > 1
    /\ temps = {}
    /\ \E k \in 2..Len(workers) : workers[k].pc = "done"

(***************************************************************************)
(* animate.py: the reveal of one measure at a cutoff (_visibilize_measure, *)
(* _visibilize_tremolo) and the baseline pass (_invisibilize_measures).    *)
(* Positions in a children list are counted from 1; next_tremolo is the    *)
(* position held by next_tremolo_element_index, 0 standing for None.       *)
(***************************************************************************)

\* The positions, in order, of the direct children of n with the tag.
RECURSIVE Tagged(_, _, _)
Tagged(n, tag, i) ==
    IF i > Len(n.kids) THEN <<>>
    ELSE (IF n.kids[i].tag = tag THEN <<i>> ELSE <<>>)
           \o Tagged(n, tag, i + 1)

\* Element.findall(tag) below the element at path p: the paths of the hits.
findall(t, p, tag) ==
    LET hits == Tagged(NodeAt(t, p), tag, 1)
    IN  [k \in 1..Len(hits) |-> Append(p, hits[k])]

RECURSIVE Flatten(_)
Flatten(ss) == IF ss = <<>> THEN <<>> ELSE Head(ss) \o Flatten(Tail(ss))

\* root.findall('Score/Staff')
StaffPaths(t) ==
    LET scores == findall(t, <<>>, "Score")
    IN  Flatten([k \in 1..Len(scores) |-> findall(t, scores[k], "Staff")])

\* staves = [staff.findall('Measure') for staff in
\*           root.findall('Score/Staff')]
Staves(t) ==
    LET sp == StaffPaths(t)
    IN  [j \in 1..Len(sp) |-> findall(t, sp[j], "Measure")]

\* The number of tuples of zip(*staves).
ZipLen(staves) ==
    IF staves = <<>> THEN 0
    ELSE CHOOSE m \in { Len(staves[j]) : j \in 1..Len(staves) } :
             \A j \in 1..Len(staves) : m <= Len(staves[j])

\* The tuple `measures` of zip(*staves) for measure_index (from 0).
MeasuresAt(staves, measure_index) ==
    [j \in 1..Len(staves) |-> staves[j][measure_index + 1]]

\* The alternation with the two chords of the pair taken for each other.
alternate_swapped(t, ep, ti, np, first) ==
    LET t1 == ReplaceAt(t, Append(ep, ti),
                        set_visible(NodeAt(t, Append(ep, ti))))
    IN  IF first
        THEN set_visible_chord(set_invisible_chord(t1, ep, Unlimited).tree,
                               np).tree
        ELSE set_invisible_chord(set_visible_chord(t1, ep).tree,
                                 np, Unlimited).tree

\* _visibilize_tremolo, lines 141-147: the stroke is not finer than
\* max_tremolo; the glyph is shown and one chord of the pair.
alternate(t, ep, ti, np, first) ==
    LET t1 == ReplaceAt(t, Append(ep, ti),
                        set_visible(NodeAt(t, Append(ep, ti))))
    IN  IF first
        THEN set_invisible_chord(set_visible_chord(t1, ep).tree,
                                 np, Unlimited).tree
        ELSE set_visible_chord(set_invisible_chord(t1, ep, Unlimited).tree,
                               np).tree

\* A tremolo that shows the whole voice, not the chords of the pair.
tremolo_pair_voice(t, ep, ti, np, timediff, duration, chord_duration, max_duration, max_tremolo) ==
    set_visible_all(t, Front(ep), AnyTag).tree

\* _visibilize_tremolo, lines 138-152, for a 'c' tremolo whose stroke lasts
\* timediff: element is at ep, its Tremolo child at ti, next_element at np.
tremolo_pair(t, ep, ti, np, timediff, duration, chord_duration, max_duration, max_tremolo) ==
    IF last_element_in_measure(QAdd(duration, chord_duration), max_duration)
    THEN IF QLe(QSub(max_tremolo, Epsilon), timediff)
         THEN alternate(t, ep, ti, np,
                  QLt(QDiv(QMod(QSub(max_duration, duration),
                                QMul(QInt(2), timediff)),
                           timediff),
                      QInt(1)))
         ELSE set_visible_all(t, np, AnyTag).tree
    ELSE ReplaceAt(ReplaceAt(t, ep, set_visible(NodeAt(t, ep))),
                   np, set_visible(NodeAt(t, np)))

\* _visibilize_tremolo, lines 134-137, with the Tremolo child at ti > 0.
tremolo_found(t, vp, element_index, ti, sub, duration, chord_duration, next_tremolo, max_duration, max_tremolo) ==
    IF sub.subtype_c # "c"
    THEN [tree |-> t, next_tremolo |-> next_tremolo]
    ELSE [tree |-> tremolo_pair(
                       t, Append(vp, element_index), ti,
                       Append(vp, get_next_chord(NodeAt(t, vp),
                                                 element_index)),
                       sub.value, duration, chord_duration, max_duration,
                       max_tremolo),
          next_tremolo |-> get_next_chord(NodeAt(t, vp), element_index)]

\* _visibilize_tremolo; the result is [tree, next_tremolo].
visibilize_tremolo(t, vp, element_index, duration, duration_type, chord_duration, next_tremolo, max_duration, max_tremolo) ==
    LET element == NodeAt(t, Append(vp, element_index))
        ti      == FindChild(element, "Tremolo")
    IN  IF ti = 0 THEN [tree |-> t, next_tremolo |-> next_tremolo]
        ELSE tremolo_found(t, vp, element_index, ti,
                           tremolo_subtype(element.kids[ti], duration_type),
                           duration, chord_duration, next_tremolo,
                           max_duration, max_tremolo)

\* The loop over the elements of one voice (_visibilize_measure, lines
\* 169-199) from position element_index on, with the loop's locals.  The
\* result is [tree, stop]: stop is the position of the element the loop
\* broke at, Len + 1 when it ran to the end of the voice.
RECURSIVE ScanVoice(_, _, _, _, _, _, _, _, _)

\* A loop that, when it ends, hides the notes of the element before the
\* one it ends at.
ScanNextHiding(t, vp, element_index, next_tremolo, duration, tuplet, time_sig, max_duration, max_tremolo) ==
    IF last_element_in_measure(duration, max_duration)
    THEN [tree |-> set_invisible_all(t, Append(vp, element_index - 1),
                                     "Note", Unlimited).tree,
          stop |-> element_index]
    ELSE ScanVoice(t, vp, element_index + 1, next_tremolo, duration, tuplet,
                   time_sig, max_duration, max_tremolo)

\* lines 198-199: the test that ends the loop body.
ScanNext(t, vp, element_index, next_tremolo, duration, tuplet, time_sig, max_duration, max_tremolo) ==
    IF last_element_in_measure(duration, max_duration)
    THEN [tree |-> t, stop |-> element_index]
    ELSE ScanVoice(t, vp, element_index + 1, next_tremolo, duration, tuplet,
                   time_sig, max_duration, max_tremolo)

\* lines 192-196, tr being the result of _visibilize_tremolo.
ScanChord(tr, vp, element_index, duration, tuplet, chord_duration, time_sig, max_duration, max_tremolo) ==
    ScanNext(tr.tree, vp, element_index, tr.next_tremolo,
             QAdd(duration, chord_duration), tuplet,
             time_sig, max_duration, max_tremolo)

\* lines 188-192, dv being the result of duration_value.
ScanDuration(t, vp, element_index, next_tremolo, duration, tuplet, dv, time_sig, max_duration, max_tremolo) ==
    ScanChord(visibilize_tremolo(
                  t, vp, element_index, duration, dv.duration_type,
                  QMul(QMul(tuplet, dv.dotted), dv.duration_type),
                  next_tremolo, max_duration, max_tremolo),
              vp, element_index, duration, tuplet,
              QMul(QMul(tuplet, dv.dotted), dv.duration_type),
              time_sig, max_duration, max_tremolo)

\* lines 178-196: the cases of the loop body, after set_visible_all.
ScanElement(t, vp, element_index, next_tremolo, duration, tuplet, time_sig, max_duration, max_tremolo) ==
    LET element == NodeAt(t, Append(vp, element_index))
    IN  IF is_gracenote(element)
        THEN ScanNext(t, vp, element_index, next_tremolo, duration, tuplet,
                      time_sig, max_duration, max_tremolo)
        ELSE IF element.tag = "location"
        THEN ScanNext(t, vp, element_index, next_tremolo,
                      QAdd(duration, duration_offset(element)), tuplet,
                      time_sig, max_duration, max_tremolo)
        ELSE IF is_tuplet(element)
        THEN ScanNext(t, vp, element_index, next_tremolo, duration,
                      tuplet_value(element),
                      time_sig, max_duration, max_tremolo)
        ELSE IF element.tag = "Chord" \/ element.tag = "Rest"
        THEN ScanDuration(t, vp, element_index, next_tremolo, duration,
                          tuplet, duration_value(element, time_sig),
                          time_sig, max_duration, max_tremolo)
        ELSE ScanNext(t, vp, element_index, next_tremolo, duration, tuplet,
                      time_sig, max_duration, max_tremolo)

ScanVoice(t, vp, element_index, next_tremolo, duration, tuplet, time_sig, max_duration, max_tremolo) ==
    IF element_index > Len(NodeAt(t, vp).kids)
    THEN [tree |-> t, stop |-> element_index]
    ELSE IF element_index = next_tremolo
    THEN ScanVoice(set_visible_all(t, Append(vp, element_index),
                                   AnyTag).tree,
                   vp, element_index + 1, 0, duration, tuplet,
                   time_sig, max_duration, max_tremolo)
    ELSE ScanElement(set_visible_all(t, Append(vp, element_index),
                                     AnyTag).tree,
                     vp, element_index, next_tremolo, duration, tuplet,
                     time_sig, max_duration, max_tremolo)

\* for voice in measure: the children of the measure at mp from position v.
RECURSIVE ScanVoices(_, _, _, _, _, _)
ScanVoices(t, mp, v, time_sig, max_duration, max_tremolo) ==
    IF v > Len(NodeAt(t, mp).kids) THEN t
    ELSE ScanVoices(
             IF is_unprintable(NodeAt(t, Append(mp, v))) THEN t
             ELSE ScanVoice(t, Append(mp, v), 1, 0, QInt(0), QInt(1),
                            time_sig, max_duration, max_tremolo).tree,
             mp, v + 1, time_sig, max_duration, max_tremolo)

\* _visibilize_measure: for staff_index, measure in enumerate(measures)
RECURSIVE visibilize_measure(_, _, _, _, _, _)
visibilize_measure(t, measures, j, time_sig, max_duration, max_tremolo) ==
    IF j > Len(measures) THEN t
    ELSE visibilize_measure(
             ScanVoices(t, measures[j], 1, time_sig, max_duration,
                        max_tremolo),
             measures, j + 1, time_sig, max_duration, max_tremolo)

\* The reveal of the measure of the first staff only.
reveal_measures_first(t, measures, j) ==
    IF j > 1 THEN t
    ELSE set_visible_all(t, measures[1], AnyTag).tree

\* for measure in measures: measure.set_visible_all()
RECURSIVE reveal_measures(_, _, _)
reveal_measures(t, measures, j) ==
    IF j > Len(measures) THEN t
    ELSE reveal_measures(set_visible_all(t, measures[j], AnyTag).tree,
                         measures, j + 1)

\* _invisibilize_measures, lines 259-271: the body for one measure.
invisibilize_measure(t, mp, inner) ==
    LET first == NodeAt(t, Append(mp, 1))
        t1 == IF inner /\ ~contains(first, "BarLine")
              THEN ReplaceAt(t, Append(mp, 1),
                             append_new(first, 4, "BarLine"))
              ELSE t
        t2 == ForIter(t1, mp, AnyTag, "lock_or_imply", Unlimited, {}).tree
    IN  ForIter(t2, mp, AnyTag, "invisibilize", Unlimited, {}).tree

\* _invisibilize_measures: the loops over zip(*staves) and over measures,
\* from tuple measure_index and staff position j on.
RECURSIVE invisibilize_measures(_, _, _, _)
invisibilize_measures(t, staves, measure_index, j) ==
    IF measure_index >= ZipLen(staves) THEN t
    ELSE IF j > Len(staves) THEN
        invisibilize_measures(t, staves, measure_index + 1, 1)
    ELSE invisibilize_measures(
             invisibilize_measure(t, staves[j][measure_index + 1],
                                  measure_index # Len(staves[1]) - 1),
             staves, measure_index, j + 1)

\* _get_trees, lines 216-221: a direct child of one of the measures is a
\* LayoutBreak whose subtype is 'page'.
page_break_in(t, measures) ==
    \E j \in 1..Len(measures) :
        \E v \in 1..Len(NodeAt(t, measures[j]).kids) :
            LET voice == NodeAt(t, Append(measures[j], v))
            IN  /\ voice.tag = "LayoutBreak"
                /\ ChildText(voice, "subtype") = "page"

\* The end barline given to the first staff only.
end_barlines_first(t, staves, j) ==
    LET mp == staves[1][Len(staves[1])]
        m  == NodeAt(t, mp)
        barline == [new_element(m.id, 0, "BarLine", "") EXCEPT
                       !.kids = <<new_element(Append(m.id, 0), 0,
                                              "subtype", "end")>>]
    IN  IF contains(m, "BarLine") THEN t
        ELSE ReplaceAt(t, mp, [m EXCEPT !.kids = Append(@, barline)])

\* _get_trees, lines 244-248: the end barline of every staff.
RECURSIVE end_barlines(_, _, _)
end_barlines(t, staves, j) ==
    IF j > Len(staves) THEN t
    ELSE LET mp == staves[j][Len(staves[j])]
             m  == NodeAt(t, mp)
             barline == [new_element(m.id, 0, "BarLine", "") EXCEPT
                            !.kids = <<new_element(Append(m.id, 0), 0,
                                                   "subtype", "end")>>]
         IN  end_barlines(
                 IF contains(m, "BarLine") THEN t
                 ELSE ReplaceAt(t, mp, [m EXCEPT !.kids = Append(@, barline)]),
                 staves, j + 1)

\* np.linspace(0, time_sig, frame_count, endpoint=False)[duration_index]
linspace(time_sig, frame_count, duration_index) ==
    QMul(Q(duration_index, frame_count), time_sig)

(***************************************************************************)
(* animate.py: read_score.                                                 *)
(***************************************************************************)

\* read_score, lines 287-291: one more than the number of LayoutBreak
\* elements, anywhere in the document, whose subtype is 'page'.
page_num(t) ==
    1 + Cardinality({ n \in NodesOf(t) :
                        /\ n.tag = "LayoutBreak"
                        /\ ChildText(n, "subtype") = "page" })

\* read_score, line 293
measures_num(t) == Len(Staves(t)[1])

\* _read_timesigs, lines 116-121: the loop over the first voice of the
\* measure from position k on; timesig is the local carried along.
RECURSIVE scan_timesig(_, _, _)
scan_timesig(voice, k, timesig) ==
    IF k > Len(voice.kids) THEN timesig
    ELSE IF voice.kids[k].tag = "TimeSig"
    THEN scan_timesig(voice, k + 1,
             QDiv(QMul(NoteValue(QInt(1)),
                       QInt(int(ChildText(voice.kids[k], "sigN")))),
                  QInt(int(ChildText(voice.kids[k], "sigD")))))
    ELSE IF voice.kids[k].tag = "Chord" THEN timesig
    ELSE scan_timesig(voice, k + 1, timesig)

\* _read_timesigs, lines 122-124: the entry stored for one measure.  The
\* text of the 'len' attribute is kept as its tokens <<n, "/", d>>.
timesig_entry(measure, timesig) ==
    IF "len" \in DOMAIN measure.attrib
    THEN QMul(NoteValue(QInt(1)),
              Q(int(measure.attrib.len[1]), int(measure.attrib.len[3])))
    ELSE timesig

\* _read_timesigs: the loops over staves (j from 1) and measures (i from
\* 1); timesig is not reset between measures nor between staves.  The
\* result maps <<measure index from 0, staff index from 0>> to the value.
RECURSIVE read_timesigs(_, _, _, _, _, _)
read_timesigs(t, staves, j, i, timesig, table) ==
    IF j > Len(staves) THEN table
    ELSE IF i > Len(staves[j])
    THEN read_timesigs(t, staves, j + 1, 1, timesig, table)
    ELSE LET measure == NodeAt(t, staves[j][i])
             voice   == measure.kids[FindChild(measure, "voice")]
             ts      == scan_timesig(voice, 1, timesig)
         IN  read_timesigs(t, staves, j, i + 1, ts,
                 table @@ (<<i - 1, j - 1>> :> timesig_entry(measure, ts)))

(***************************************************************************)
(* SpecSeq: the documents.  A document has Staves staves of Measures       *)
(* measures, all of one kind; the time signature is written in the first   *)
(* measure of each staff, and a page break is a LayoutBreak child of a     *)
(* measure, written before its voice.                                      *)
(***************************************************************************)
MaxStaves == 2
MaxMeasures == 2

XTimeSig(n, d) == XNode("TimeSig", <<XLeaf("sigN", n), XLeaf("sigD", d)>>)
XNote == XNode("Note", <<XLeaf("pitch", "60")>>)
XChord(dt) == XNode("Chord", <<XLeaf("durationType", dt), XNote>>)
XDotted(dt, dots) ==
    XNode("Chord", <<XLeaf("dots", dots), XLeaf("durationType", dt), XNote>>)
XRest(dt) == XNode("Rest", <<XLeaf("durationType", dt)>>)
XHiddenRest(dt) ==
    XNode("Rest", <<XLeaf("visible", "0"), XLeaf("durationType", dt)>>)
XTremolo(dt, sub) ==
    XNode("Chord", <<XLeaf("durationType", dt),
                     XNode("Tremolo", <<XLeaf("subtype", sub)>>), XNote>>)
XPageBreak == XNode("LayoutBreak", <<XLeaf("subtype", "page")>>)
XGrace(dt) ==
    XNode("Chord", <<XLeaf("acciaccatura", ""), XLeaf("durationType", dt),
                     XNote>>)

\* A location element; its offset is the text of <fractions>, kept as
\* the tokens <<sign, n, "/", d>>.
XLocation(f) == XNode("location", <<XLeaf("fractions", f)>>)

Kinds == {"44", "44h", "58", "38", "trem", "pickup"}

\* The time signature element of a kind.
KindTimeSig(kind) ==
    CASE kind \in {"44", "44h"} -> XTimeSig("4", "4")
      [] kind = "58"     -> XTimeSig("5", "8")
      [] kind = "38"     -> XTimeSig("3", "8")
      [] kind = "trem"   -> XTimeSig("2", "4")
      [] kind = "pickup" -> XTimeSig("2", "4")
      [] kind = "grace"  -> XTimeSig("2", "4")
      [] kind = "tremr"  -> XTimeSig("2", "4")
      [] kind \in {"back", "skip", "over"} -> XTimeSig("2", "4")

\* The chords and rests of one measure of a kind.
KindContent(kind) ==
    CASE kind = "44"     -> <<XChord("half"), XRest("quarter"),
                              XChord("quarter")>>
      [] kind = "44h"    -> <<XChord("half"), XHiddenRest("quarter"),
                              XChord("quarter")>>
      [] kind = "58"     -> <<XDotted("quarter", "1"), XChord("quarter")>>
      [] kind = "38"     -> <<XRest("measure")>>
      [] kind = "trem"   -> <<XRest("quarter"),
                              XTremolo("quarter", <<"c", "8">>),
                              XChord("quarter")>>
      [] kind = "pickup" -> <<XChord("quarter")>>
      [] kind = "grace"  -> <<XChord("quarter"), XGrace("eighth"),
                              XChord("quarter")>>
      [] kind = "tremr"  -> <<XTremolo("quarter", <<"c", "8">>),
                              XChord("quarter"), XRest("quarter")>>
      [] kind = "back"   -> <<XChord("quarter"),
                              XLocation(<<"-", "1", "/", "8">>),
                              XChord("eighth"), XChord("quarter")>>
      [] kind = "skip"   -> <<XLocation(<<"", "1", "/", "4">>),
                              XChord("quarter")>>
      [] kind = "over"   -> <<XChord("half"),
                              XLocation(<<"-", "1", "/", "4">>),
                              XRest("quarter")>>

KindAttrib(kind) ==
    IF kind = "pickup" THEN [len |-> <<"1", "/", "4">>] ELSE NoAttrib

XMeasure(kind, first, break) ==
    Xml("Measure", KindAttrib(kind), "",
        (IF break THEN <<XPageBreak>> ELSE <<>>)
          \o <<XNode("voice",
                     (IF first THEN <<KindTimeSig(kind)>> ELSE <<>>)
                       \o KindContent(kind))>>)

\* An end barline as the document has it.
XBarLine == XNode("BarLine", <<XLeaf("subtype", "end")>>)

\* Where the only measure of a staff has a BarLine when the document is
\* read: nowhere, as a child of the Measure, or in its voice.
Places == {"none", "measure", "voice"}

\* A one-measure staff whose measure has a BarLine at the place given.
XEndStaff(kind, place) ==
    XNode("Staff",
          <<Xml("Measure", KindAttrib(kind), "",
                <<XNode("voice",
                        <<KindTimeSig(kind)>> \o KindContent(kind)
                          \o (IF place = "voice" THEN <<XBarLine>>
                              ELSE <<>>))>>
                  \o (IF place = "measure" THEN <<XBarLine>> ELSE <<>>))>>)

XEndDocument(s, kind, place) ==
    XNode("museScore",
          <<XNode("Score", [j \in 1..s |-> XEndStaff(kind, place[j])])>>)

\* brk[i] tells where measure i (from 1) has its page break: on no staff,
\* on the first staff only, or on every staff.
XStaff(j, m, kind, brk) ==
    XNode("Staff",
          [i \in 1..m |->
              XMeasure(kind, i = 1,
                       brk[i] = "all" \/ (brk[i] = "first" /\ j = 1))])

XDocument(s, m, kind, brk) ==
    XNode("museScore",
          <<XNode("Score", [j \in 1..s |-> XStaff(j, m, kind, brk)])>>)

\* The subdivisions of the jobs and the values of max_tremolo: Note(n).
Subdivisions == {4, 8}
Resolutions == {4, 8, 32}

\* Scores of every kind without page breaks, animated in all their
\* measures (add_job_all_measures) at every subdivision; max_tremolo takes
\* every resolution for the scores with a tremolo, the only ones in which
\* it is read, and is left at its default Note(32) for the others.
RhythmInputs ==
    UNION { { [doc |-> XDocument(s, m, kind, [i \in 1..m |-> "none"]),
               first_emtpy_frame |-> f,
               jobs |-> [i \in 0..(m - 1) |-> NoteValue(QInt(n))],
               max_tremolo |-> NoteValue(QInt(r))] :
                s \in 1..MaxStaves, m \in 1..MaxMeasures,
                f \in BOOLEAN, n \in Subdivisions,
                r \in (IF kind = "trem" THEN Resolutions ELSE {32}) } :
            kind \in Kinds }

\* Scores of pickup measures with page breaks anywhere, animated in any of
\* their measures (add_job) at the quarter note, max_tremolo left at its
\* default Note(32).
PagingInputs ==
    UNION { { [doc |-> XDocument(s, m, "pickup", brk),
               first_emtpy_frame |-> f,
               jobs |-> [i \in J |-> NoteValue(QInt(4))],
               max_tremolo |-> NoteValue(QInt(32))] :
                s \in 1..MaxStaves, f \in BOOLEAN,
                brk \in [1..m -> {"none", "first", "all"}],
                J \in SUBSET (0..(m - 1)) } :
            m \in 1..MaxMeasures }

(***************************************************************************)
(* SpecSeq: generate_frames up to the frames it gets from _get_trees:      *)
(* the baseline pass, then the generator resumed again and again.  A       *)
(* yielded frame is [page, obj, val] with ghost fields: obj names the tree *)
(* object the consumer was given, val is that object's content unless obj  *)
(* is the live tree itself.  Nodes of a copy keep the id of their origin.  *)
(***************************************************************************)
LiveTree == 0

\* The tree without the MElement-only field: copy.deepcopy keeps tag,
\* attrib, text and children.
RECURSIVE Strip(_)
Strip(n) ==
    [id |-> n.id, tag |-> n.tag, attrib |-> n.attrib, text |-> n.text,
     kids |-> [i \in 1..Len(n.kids) |-> Strip(n.kids[i])]]

\* The generator handing out the live tree itself.
deepcopy_alias(t, k) == [obj |-> LiveTree, val |-> Strip(t)]

\* copy.deepcopy(self._tree), k naming the new object.
deepcopy(t, k) == [obj |-> k, val |-> Strip(t)]

\* The content of the tree object of a frame, as the consumer reads it.
Deref(f) == IF f.obj = LiveTree THEN Strip(tree) ELSE f.val

\* The identities of the visible elements of a tree.
RECURSIVE VisibleIds(_)
VisibleIds(t) ==
    (IF is_visible(t) THEN {t.id} ELSE {})
      \cup UNION { VisibleIds(t.kids[i]) : i \in 1..Len(t.kids) }

\* yield page, copy.deepcopy(self._tree); what, at and max_duration note
\* which yield statement it was.
Yielded(t, page, what, at, k, max_duration) ==
    Append(frames,
           deepcopy(t, Len(frames) + 1) @@
             [page |-> page, shown |-> VisibleIds(t), what |-> what,
              measure_index |-> at, duration_index |-> k,
              max_duration |-> max_duration])

\* One-measure scores of pickup measures whose staves have a BarLine in
\* their measure already, at any place, animated or not.
BarlineInputs ==
    UNION { { [doc |-> XEndDocument(s, "pickup", place),
               first_emtpy_frame |-> f,
               jobs |-> [i \in J |-> NoteValue(QInt(4))],
               max_tremolo |-> NoteValue(QInt(32))] :
                place \in [1..s -> Places], f \in BOOLEAN,
                J \in SUBSET {0} } :
            s \in 1..MaxStaves }

Inputs == RhythmInputs \cup PagingInputs \cup BarlineInputs

InitSeq ==
    /\ \E in \in Inputs :
         LET t == Parse(in.doc, <<1>>)
         IN  /\ tree = t
             /\ amusing =
                  [first_emtpy_frame |-> in.first_emtpy_frame,
                   \* ghost: the elements hidden in the document as read
                   hidden      |-> IdsOf(t) \ VisibleIds(t),
                   jobs        |-> in.jobs,
                   max_tremolo |-> in.max_tremolo,
                   page_num    |-> page_num(t),
                   timesigs    |-> read_timesigs(t, Staves(t), 1, 1,
                                                 QInt(0), <<>>)]
    \* baseline is a ghost field: the elements the baseline pass left visible
    /\ gen = [pc |-> "created", measure_index |-> 0, duration_index |-> 0,
              frame_count |-> 0, time_sig |-> QInt(0), page |-> 1,
              newpage |-> FALSE, baseline |-> {}]
    /\ frames = <<>>
    /\ hung = FALSE /\ touched = {}
    /\ NoPool
    /\ NoNote
    /\ NoScan

\* generate_frames, line 328: self._invisibilize_measures()
InvisibilizeMeasures ==
    /\ gen.pc = "created"
    /\ tree' = invisibilize_measures(tree, Staves(tree), 0, 1)
    /\ gen' = [gen EXCEPT !.pc = "begin", !.baseline = VisibleIds(tree')]
    /\ UNCHANGED <<hung, touched, poolVars, noteVars, scanVars, amusing, frames>>

\* _get_trees, lines 202-213: up to the loop over the measures.
Begin ==
    /\ gen.pc = "begin"
    /\ frames' = IF amusing.first_emtpy_frame
                 THEN Yielded(tree, 1, "empty", 0, 0, QInt(0))
                 ELSE frames
    /\ gen' = [gen EXCEPT !.pc = IF ZipLen(Staves(tree)) > 0
                                 THEN "measure" ELSE "final"]
    /\ UNCHANGED <<treeVars, poolVars, noteVars, scanVars, amusing>>

\* _get_trees, lines 214-226: the next tuple of measures, its page break
\* and its job.
EnterMeasure ==
    /\ gen.pc = "measure"
    /\ LET measures == MeasuresAt(Staves(tree), gen.measure_index)
           isjob    == gen.measure_index \in DOMAIN amusing.jobs
           time_sig == amusing.timesigs[<<gen.measure_index, 0>>]
           frame_count ==
               PyRound(QDiv(time_sig, amusing.jobs[gen.measure_index]))
       IN  gen' = IF isjob
                  THEN [gen EXCEPT
                          !.newpage = page_break_in(tree, measures) \/ @,
                          !.time_sig = time_sig,
                          !.frame_count = frame_count,
                          !.duration_index = 0,
                          !.pc = IF frame_count > 0 THEN "animate"
                                 ELSE "leave"]
                  ELSE [gen EXCEPT
                          !.newpage = page_break_in(tree, measures) \/ @,
                          !.pc = "leave"]
    /\ UNCHANGED <<treeVars, poolVars, noteVars, scanVars, amusing, frames>>

\* _get_trees, lines 228-231: one round of the loop over the cutoffs.
Animate ==
    /\ gen.pc = "animate"
    /\ LET measures == MeasuresAt(Staves(tree), gen.measure_index)
           max_duration == linspace(gen.time_sig, gen.frame_count,
                                    gen.duration_index)
       IN  /\ tree' = visibilize_measure(tree, measures, 1, gen.time_sig,
                                         max_duration, amusing.max_tremolo)
           /\ frames' = Yielded(tree', gen.page, "animated", gen.measure_index,
                                gen.duration_index, max_duration)
    /\ gen' = [gen EXCEPT
                 !.duration_index = @ + 1,
                 !.pc = IF gen.duration_index + 1 < gen.frame_count
                        THEN "animate" ELSE "leave"]
    /\ UNCHANGED <<hung, touched, poolVars, noteVars, scanVars, amusing>>

\* _get_trees, lines 233-242: the measures are revealed in full and the
\* page is turned.
LeaveMeasure ==
    /\ gen.pc = "leave"
    /\ LET measures == MeasuresAt(Staves(tree), gen.measure_index)
       IN  /\ tree' = reveal_measures(tree, measures, 1)
           /\ frames' = IF gen.newpage
                        THEN Yielded(tree', gen.page + 1, "newpage",
                                     gen.measure_index, 0, QInt(0))
                        ELSE frames
    /\ gen' = [gen EXCEPT
                 !.page = IF gen.newpage THEN @ + 1 ELSE @,
                 !.newpage = FALSE,
                 !.measure_index = @ + 1,
                 !.pc = IF gen.measure_index + 1 < ZipLen(Staves(tree))
                        THEN "measure" ELSE "final"]
    /\ UNCHANGED <<hung, touched, poolVars, noteVars, scanVars, amusing>>

\* _get_trees, lines 244-250: the end barlines and the last frame.
Final ==
    /\ gen.pc = "final"
    /\ tree' = end_barlines(tree, Staves(tree), 1)
    /\ frames' = Yielded(tree', gen.page, "final", gen.measure_index, 0,
                         QInt(0))
    /\ gen' = [gen EXCEPT !.pc = "done"]
    /\ UNCHANGED <<hung, touched, poolVars, noteVars, scanVars, amusing>>

NextSeq ==
    \/ InvisibilizeMeasures
    \/ Begin
    \/ EnterMeasure
    \/ Animate
    \/ LeaveMeasure
    \/ Final

SpecSeq == InitSeq /\ [][NextSeq]_vars

(***************************************************************************)
(* Properties of SpecSeq.                                                  *)
(***************************************************************************)
Done == gen.pc = "done"

\* The number of tuples of measures the generator goes through.
MeasureCount == ZipLen(Staves(tree))

\* C4: every yielded frame is a tree object of its own, different from
\* the live tree and from every other frame's, and at any later moment the
\* elements visible in it are those that were visible in the live tree
\* when the frame was yielded, whatever has since been done to the live
\* tree (further reveals, page turns, the end barlines).
C4_FramesAreSnapshots ==
    \A i \in 1..Len(frames) :
        /\ frames[i].obj # LiveTree
        /\ \A j \in 1..Len(frames) : j # i => frames[j].obj # frames[i].obj
        /\ VisibleIds(Deref(frames[i])) = frames[i].shown

\* A frame was yielded, the live tree has been changed since, and a later
\* frame shows something else.
C4_Witness ==
    \E i \in 1..Len(frames) :
        /\ VisibleIds(tree) # frames[i].shown
        /\ \E j \in (i + 1)..Len(frames) : frames[j].shown # frames[i].shown

\* The integer nearest to the fraction x, the even one of the two when x
\* lies half way.
Nearest(x) ==
    CHOOSE n \in QFloor(x)..(QFloor(x) + 1) :
        \/ QLt(QMul(QInt(2), QSub(x, QInt(n))), QInt(1))
             /\ QLt(QMul(QInt(2), QSub(QInt(n), x)), QInt(1))
        \/ /\ QMul(QInt(2), QSub(x, QInt(n))) \in {QInt(1), QInt(-1)}
           /\ n % 2 = 0

IsAnimatedOf(f, i) == f.what = "animated" /\ f.measure_index = i

RECURSIVE Filter(_, _)
Filter(fs, i) ==
    IF fs = <<>> THEN <<>>
    ELSE (IF IsAnimatedOf(Head(fs), i) THEN <<Head(fs)>> ELSE <<>>)
           \o Filter(Tail(fs), i)

\* The animated frames yielded for measure index i, in order.
AnimatedFrames(i) == Filter(frames, i)

JobMeasures == { i \in DOMAIN amusing.jobs : i < MeasureCount }

\* The number of animated frames of job measure i: T/S rounded.
Count(i) ==
    Nearest(QDiv(amusing.timesigs[<<i, 0>>], amusing.jobs[i]))

\* C5: for a job on measure i with staff-0 time signature value T and
\* subdivision value S the generator yields round(T/S) animated frames,
\* no more while it is at the measure and exactly that many once it has
\* left it; the k-th (k from 0) is computed at cutoff k*T/round(T/S): the
\* cutoffs start at 0, are T/round(T/S) apart and stay below T.
C5_FrameCountAndCutoffs ==
    \A i \in JobMeasures :
        /\ Len(AnimatedFrames(i)) <= Count(i)
        /\ gen.measure_index > i => Len(AnimatedFrames(i)) = Count(i)
        /\ \A k \in 1..Len(AnimatedFrames(i)) :
             /\ AnimatedFrames(i)[k].duration_index = k - 1
             /\ QMul(AnimatedFrames(i)[k].max_duration, QInt(Count(i)))
                  = QMul(QInt(k - 1), amusing.timesigs[<<i, 0>>])
             /\ QLt(AnimatedFrames(i)[k].max_duration,
                    amusing.timesigs[<<i, 0>>])
             /\ k = 1 => AnimatedFrames(i)[k].max_duration = QInt(0)
             /\ k > 1 =>
                  QMul(QSub(AnimatedFrames(i)[k].max_duration,
                            AnimatedFrames(i)[k - 1].max_duration),
                       QInt(Count(i)))
                    = amusing.timesigs[<<i, 0>>]

\* The run is over and one of its jobs was on a measure whose T/S lies
\* half way between two integers.
C5_Witness ==
    /\ Done
    /\ \E i \in JobMeasures :
         /\ QMul(QInt(2), QDiv(amusing.timesigs[<<i, 0>>], amusing.jobs[i]))
              \in { QInt(2 * n + 1) : n \in 0..4 }
         /\ Len(AnimatedFrames(i)) = Count(i)
         /\ Count(i) >= 2

\* Measure index i (from 0) carries a page break: on some staff, the
\* measure has a LayoutBreak child whose subtype is 'page'.
BreakAt(i) ==
    \E j \in 1..Len(Staves(tree)) :
        \E n \in { NodeAt(tree, Staves(tree)[j][i + 1]).kids[v] :
                     v \in 1..Len(NodeAt(tree, Staves(tree)[j][i + 1]).kids) } :
            n.tag = "LayoutBreak" /\ ChildText(n, "subtype") = "page"

\* The page-break markers of the document.
Markers ==
    { n \in NodesOf(tree) :
        n.tag = "LayoutBreak" /\ ChildText(n, "subtype") = "page" }

\* The number of measure indices that carry a page break.
BreakCount == Cardinality({ i \in 0..(MeasureCount - 1) : BreakAt(i) })

PagesTaken == { frames[k].page : k \in 1..Len(frames) }

NonDecreasing ==
    \A k \in 1..(Len(frames) - 1) : frames[k].page <= frames[k + 1].page

\* C6: with k page-break markers in the document, the pages of the
\* yielded frames are non-decreasing, start at 1, take every value in
\* 1..k+1, and the final frame is on page k+1 = _page_num.
C6_PagesSpanMarkers ==
    Done =>
        /\ NonDecreasing
        /\ frames[1].page = 1
        /\ PagesTaken = 1..(Cardinality(Markers) + 1)
        /\ frames[Len(frames)].page = Cardinality(Markers) + 1
        /\ amusing.page_num = Cardinality(Markers) + 1

\* What the frames of a run are to be, from measure index i on, the page
\* being page: [what, page, measure_index] of each.
RECURSIVE ExpectedFrom(_, _)
ExpectedFrom(i, page) ==
    IF i >= MeasureCount
    THEN <<[what |-> "final", page |-> page, measure_index |-> i]>>
    ELSE [k \in 1..(IF i \in JobMeasures THEN Count(i) ELSE 0) |->
             [what |-> "animated", page |-> page, measure_index |-> i]]
         \o (IF BreakAt(i)
             THEN <<[what |-> "newpage", page |-> page + 1,
                     measure_index |-> i]>>
             ELSE <<>>)
         \o ExpectedFrom(i + 1, IF BreakAt(i) THEN page + 1 ELSE page)

Expected ==
    (IF amusing.first_emtpy_frame
     THEN <<[what |-> "empty", page |-> 1, measure_index |-> 0]>>
     ELSE <<>>)
    \o ExpectedFrom(0, 1)

\* [what, page, measure_index] of the frames yielded so far.
Labels ==
    [k \in 1..Len(frames) |->
        [what |-> frames[k].what, page |-> frames[k].page,
         measure_index |-> frames[k].measure_index]]

\* Every element of the tree that the baseline pass hides is hidden.
RECURSIVE AllHidden(_)
AllHidden(t) ==
    /\ t.tag \in INVISIBILIZE => ~is_visible(t)
    /\ \A i \in 1..Len(t.kids) : AllHidden(t.kids[i])

\* Every staff's last measure has a BarLine child.
EndBarlines(t) ==
    \A j \in 1..Len(Staves(t)) :
        contains(NodeAt(t, Staves(t)[j][Len(Staves(t)[j])]), "BarLine")

\* The run of the example: 2 staves, 1 measure of 4/4, a quarter-note job
\* on it, first_emtpy_frame set.
Example ==
    /\ Len(Staves(tree)) = 2
    /\ MeasureCount = 1
    /\ amusing.timesigs[<<0, 0>>] = NoteValue(QInt(1))
    /\ amusing.jobs = (0 :> NoteValue(QInt(4)))
    /\ amusing.first_emtpy_frame

\* C7: the frames yielded by a run are, in this order: the initial frame
\* on page 1, with everything hidden, iff first_emtpy_frame is set; for
\* each measure index in document order round(T/S) animated frames if it
\* is a job, then one frame on the next page iff the measure carries a
\* page break; then one final frame, made after the end barlines were
\* inserted.  At any moment the frames yielded so far are the beginning of
\* that sequence.  The example gives 6 frames (1 + 4 at the cutoffs 0, 1,
\* 2, 3 quarters + 1), all on page 1.
C7_SequenceOfFrames ==
    /\ IsPrefix(Labels, Expected)
    /\ Done => Labels = Expected
    /\ (frames # <<>> /\ amusing.first_emtpy_frame) =>
           AllHidden(Deref(frames[1]))
    /\ Done => EndBarlines(Deref(frames[Len(frames)]))
    /\ (Done /\ Example) =>
           /\ Len(frames) = 6
           /\ \A k \in 1..6 : frames[k].page = 1
           /\ \A k \in 2..5 :
                 /\ frames[k].what = "animated"
                 /\ frames[k].max_duration
                      = QMul(QInt(k - 2), NoteValue(QInt(4)))

\* The run of the example is over.
C7_Witness ==
    /\ Done
    /\ Example
    /\ Len(frames) = 6

\* The paths of the voices of measure index i, on every staff.
VoicePaths(t, i) ==
    UNION { { Append(Staves(t)[j][i + 1], v) :
                v \in { w \in 1..Len(NodeAt(t, Staves(t)[j][i + 1]).kids) :
                          NodeAt(t, Staves(t)[j][i + 1]).kids[w].tag
                            = "voice" } } :
            j \in 1..Len(Staves(t)) }

\* The time a Chord or Rest of a measure of length T takes.
SpanOf(n, T) ==
    QMul(duration_value(n, T).dotted, duration_value(n, T).duration_type)

\* The cursor at position a of a voice: the time taken by the chords and
\* rests before it.
RECURSIVE CursorAt(_, _, _)
CursorAt(voice, a, T) ==
    IF a = 1 THEN QInt(0)
    ELSE QAdd(CursorAt(voice, a - 1, T),
              IF voice.kids[a - 1].tag \in {"Chord", "Rest"}
              THEN SpanOf(voice.kids[a - 1], T) ELSE QInt(0))

\* The element at position a of the voice is a chord with a 'c'-class
\* tremolo, and a chord follows it.
IsTremoloC(voice, a) ==
    /\ voice.kids[a].tag = "Chord"
    /\ FindChild(voice.kids[a], "Tremolo") # 0
    /\ ChildText(voice.kids[a].kids[FindChild(voice.kids[a], "Tremolo")],
                 "subtype")[1] = "c"
    /\ get_next_chord(voice, a) # 0

\* The stroke duration of the tremolo on chord A.
StrokeOf(A, T) ==
    tremolo_subtype(A.kids[FindChild(A, "Tremolo")],
                    duration_value(A, T).duration_type).value

ChordSubs(n) ==
    { x \in NodesOf(n) : \E k \in 1..Len(CHORD_SUB) : x.tag = CHORD_SUB[k] }

Shown(n) == ChordSubs(n) # {} /\ \A x \in ChordSubs(n) : is_visible(x)

Hidden(n) == ChordSubs(n) # {} /\ \A x \in ChordSubs(n) : ~is_visible(x)

FullyVisible(n) == \A x \in NodesOf(n) : is_visible(x)

\* Chord A of the pair is the one to show at cutoff q.
FirstOfPair(q, c, d) ==
    QLt(QDiv(QMod(QSub(q, c), QMul(QInt(2), d)), d), QInt(1))

InSpan(q, c, span) == QLe(c, q) /\ QLt(q, QAdd(c, span))

Animated(d) == QLe(amusing.max_tremolo, d)

\* What the claim says of the pair (A, B) at cutoff q, A starting at c.
PairAt(A, B, q, c, d) ==
    IF Animated(d)
    THEN /\ is_visible(A.kids[FindChild(A, "Tremolo")])
         /\ IF FirstOfPair(q, c, d)
            THEN Shown(A) /\ Hidden(B)
            ELSE Shown(B) /\ Hidden(A)
    ELSE FullyVisible(A) /\ FullyVisible(B)

\* The pair at position a of the voice, in an animated frame of cutoff q.
PairIn(voice, a, q, T) ==
    (IsTremoloC(voice, a)
       /\ InSpan(q, CursorAt(voice, a, T), SpanOf(voice.kids[a], T)))
    => PairAt(voice.kids[a], voice.kids[get_next_chord(voice, a)],
              q, CursorAt(voice, a, T), StrokeOf(voice.kids[a], T))

\* C8: in every animated frame whose cutoff is inside the span of a
\* 'c'-class tremolo pair (A at cursor c, B the next chord, stroke d): if
\* d is not below max_tremolo, the tremolo glyph is visible and A's
\* notehead/stem/accidental/dot/hook elements are visible and B's hidden
\* exactly when ((cutoff - c) mod 2d)/d < 1, the other way round
\* otherwise; if d is below max_tremolo, A and B are fully visible.
C8_TremoloAlternation ==
    \A k \in 1..Len(frames) :
        frames[k].what = "animated" =>
            \A vp \in VoicePaths(Deref(frames[k]), frames[k].measure_index) :
                \A a \in 1..Len(NodeAt(Deref(frames[k]), vp).kids) :
                    PairIn(NodeAt(Deref(frames[k]), vp), a,
                           frames[k].max_duration,
                           amusing.timesigs[<<frames[k].measure_index, 0>>])

\* A frame inside the span of the pair at position a of the voice, the
\* stroke being as the flag says and chord A shown or not.
PairSeen(voice, a, q, T, animated, first) ==
    /\ IsTremoloC(voice, a)
    /\ InSpan(q, CursorAt(voice, a, T), SpanOf(voice.kids[a], T))
    /\ Animated(StrokeOf(voice.kids[a], T)) = animated
    /\ FirstOfPair(q, CursorAt(voice, a, T), StrokeOf(voice.kids[a], T))
         = first

FrameSeen(k, animated, first) ==
    /\ frames[k].what = "animated"
    /\ \E vp \in VoicePaths(Deref(frames[k]), frames[k].measure_index) :
          \E a \in 1..Len(NodeAt(Deref(frames[k]), vp).kids) :
              PairSeen(NodeAt(Deref(frames[k]), vp), a,
                       frames[k].max_duration,
                       amusing.timesigs[<<frames[k].measure_index, 0>>],
                       animated, first)

\* A run that has yielded a frame showing chord A and a frame showing
\* chord B of an animated tremolo.
C8_Witness ==
    /\ \E k \in 1..Len(frames) : FrameSeen(k, TRUE, TRUE)
    /\ \E k \in 1..Len(frames) : FrameSeen(k, TRUE, FALSE)

\* A run that has yielded a frame inside the span of a tremolo whose
\* stroke is finer than max_tremolo.
C8_WitnessAtomic == \E k \in 1..Len(frames) : FrameSeen(k, FALSE, FALSE)

\* The identities of the elements of a tree that are locked and hidden.
RECURSIVE LockedHiddenIds(_)
LockedHiddenIds(t) ==
    (IF t.locked /\ ~is_visible(t) THEN {t.id} ELSE {})
      \cup UNION { LockedHiddenIds(t.kids[i]) : i \in 1..Len(t.kids) }

\* C12: once the baseline pass has run, every element that was hidden in
\* the document as read is locked and hidden in the live tree, and it is
\* hidden in every frame yielded: the first empty frame, the animated
\* frames, the page-break frames and the final frame.
C12_HiddenStayHidden ==
    amusing.hidden # {} =>
        /\ gen.pc # "created" =>
              amusing.hidden \subseteq LockedHiddenIds(tree)
        /\ \A k \in 1..Len(frames) :
              /\ amusing.hidden \subseteq IdsOf(Deref(frames[k]))
              /\ amusing.hidden \cap VisibleIds(Deref(frames[k])) = {}

\* C12 witness: a run is over in which a job's cutoffs went past an element
\* that was hidden in the document as read.
C12_Witness ==
    /\ Done
    /\ amusing.hidden # {}
    /\ \E k \in 1..Len(frames) :
          /\ frames[k].what = "animated"
          /\ QLe(NoteValue(QInt(2)), frames[k].max_duration)
          /\ amusing.hidden \cap VisibleIds(Deref(frames[k])) = {}

(***************************************************************************)
(* SpecNote: the class Note.  Objects are made by Note(note_type) and by   *)
(* Note.from_text(text), halved in place by half(), and compared with ==.  *)
(* A Note object is its position in notes; its _value is notes[i].         *)
(***************************************************************************)
MaxNotes == 2

\* The note_type arguments of Note(note_type); 1/2 is the breve's 0.5.
NoteTypes ==
    {Q(1, 2), QInt(1), QInt(2), QInt(4), QInt(8), QInt(16), QInt(32)}

\* The durationType tokens Note.from_text reads.
Tokens == {"breve", "whole", "half", "quarter", "eighth", "16th", "32nd"}

\* a == b for two Note objects: the class defines no __eq__, so this is
\* object.__eq__, which is true of an object and itself only.
note_eq(a, b) == a = b

InitNote ==
    /\ notes = <<>>
    /\ compared = <<>>
    /\ NoTree
    /\ NoPool
    /\ NoSeq
    /\ NoScan

\* Note(note_type)
NoteNew ==
    /\ Len(notes) < MaxNotes
    /\ \E note_type \in NoteTypes : notes' = Append(notes, NoteValue(note_type))
    /\ UNCHANGED <<compared, treeVars, poolVars, seqVars, scanVars>>

\* Note.from_text(text)
NoteFromText ==
    /\ Len(notes) < MaxNotes
    /\ \E text \in Tokens : notes' = Append(notes, from_text(text))
    /\ UNCHANGED <<compared, treeVars, poolVars, seqVars, scanVars>>

\* note.half(): the object's own value is halved; no value of the model
\* goes below that of Note(32).
NoteHalf ==
    /\ \E i \in 1..Len(notes) :
         /\ QLt(NoteValue(QInt(32)), notes[i])
         /\ notes' = [notes EXCEPT ![i] = QDiv(@, QInt(2))]
    /\ UNCHANGED <<compared, treeVars, poolVars, seqVars, scanVars>>

\* a == b
NoteCompare ==
    /\ \E a \in 1..Len(notes), b \in 1..Len(notes) :
         compared' = [a |-> a, b |-> b, value_a |-> notes[a],
                      value_b |-> notes[b], eq |-> note_eq(a, b)]
    /\ UNCHANGED <<notes, treeVars, poolVars, seqVars, scanVars>>

NextNote ==
    \/ NoteNew
    \/ NoteFromText
    \/ NoteHalf
    \/ NoteCompare

SpecNote == InitNote /\ [][NextNote]_vars

\* C13: two Notes of equal value compare as equal, however each was made
\* (from a token, from a denominator, or two objects from the same
\* denominator).
C13_EqualValueComparesEqual ==
    compared # <<>> =>
        (compared.value_a = compared.value_b => compared.eq)

(***************************************************************************)
(* SpecScan: one measure of one staff under _visibilize_measure.  The      *)
(* score is read, the baseline pass hides the measure, and the measure is  *)
(* then scanned at the cutoffs of its job, one after the other, as the     *)
(* loop of _get_trees does.  scan.before and scan.stop are ghost fields:   *)
(* the tree before the last scan and the position in the voice at which    *)
(* that scan left the loop (the length of the voice plus one when it ran   *)
(* to the end).                                                            *)
(***************************************************************************)
ScanKinds == {"44", "44h", "58", "trem", "tremr", "grace"}

\* The subdivisions of the job of the scanned measure: Note(n).
ScanSubdivisions == {2, 4, 8}

\* The measure that is scanned and its voice.
ScanMeasure(t) == Staves(t)[1][1]

ScanVoicePath(t) ==
    Append(ScanMeasure(t), FindChild(NodeAt(t, ScanMeasure(t)), "voice"))

\* The measures whose voice has location elements: one that takes the
\* cursor back between two chords, one that skips the first beat, one that
\* takes the cursor back after a chord that fills the measure.
OffsetKinds == {"back", "skip", "over"}

\* The score is read: one staff of one measure, of a kind of K.
InitScanOf(K) ==
    /\ \E kind \in K, n \in ScanSubdivisions, r \in Resolutions :
         /\ tree = Parse(XDocument(1, 1, kind, <<"none">>), <<1>>)
         /\ scan = [pc |-> "read",
                    time_sig |-> read_timesigs(tree, Staves(tree), 1, 1,
                                               QInt(0), <<>>)[<<0, 0>>],
                    subdivision |-> NoteValue(QInt(n)),
                    max_tremolo |-> NoteValue(QInt(r)),
                    duration_index |-> 0,
                    max_duration |-> QInt(0),
                    before |-> <<>>,
                    stop |-> 0]
    /\ hung = FALSE /\ touched = {}
    /\ NoPool
    /\ NoSeq
    /\ NoNote

InitScan == InitScanOf(ScanKinds)

\* generate_frames, line 328: self._invisibilize_measures()
ScanBaseline ==
    /\ scan.pc = "read"
    /\ tree' = invisibilize_measures(tree, Staves(tree), 0, 1)
    /\ scan' = [scan EXCEPT !.pc = "scanning"]
    /\ UNCHANGED <<hung, touched, poolVars, seqVars, noteVars>>

\* _get_trees, lines 228-229: the call of _visibilize_measure at the next
\* cutoff of the job.
Scan ==
    /\ scan.pc = "scanning"
    /\ scan.duration_index
         < PyRound(QDiv(scan.time_sig, scan.subdivision))
    /\ LET max_duration ==
               linspace(scan.time_sig,
                        PyRound(QDiv(scan.time_sig, scan.subdivision)),
                        scan.duration_index)
       IN  /\ tree' = visibilize_measure(tree, <<ScanMeasure(tree)>>, 1,
                                         scan.time_sig, max_duration,
                                         scan.max_tremolo)
           /\ scan' = [scan EXCEPT
                         !.duration_index = @ + 1,
                         !.max_duration = max_duration,
                         !.before = tree,
                         !.stop = ScanVoice(tree, ScanVoicePath(tree), 1, 0,
                                            QInt(0), QInt(1), scan.time_sig,
                                            max_duration,
                                            scan.max_tremolo).stop]
    /\ UNCHANGED <<hung, touched, poolVars, seqVars, noteVars>>

\* _get_trees, lines 233-234: measure.set_visible_all() once the cutoffs of
\* the job are through.
ScanReveal ==
    /\ scan.pc = "scanning"
    /\ scan.duration_index
         = PyRound(QDiv(scan.time_sig, scan.subdivision))
    /\ tree' = reveal_measures(tree, <<ScanMeasure(tree)>>, 1)
    /\ scan' = [scan EXCEPT !.pc = "revealed"]
    /\ UNCHANGED <<hung, touched, poolVars, seqVars, noteVars>>

NextScan ==
    \/ ScanBaseline
    \/ Scan
    \/ ScanReveal

SpecScan == InitScan /\ [][NextScan]_vars

\* The scans of the measures of every kind, those with location elements
\* included.
SpecScanOffsets ==
    InitScanOf(ScanKinds \cup OffsetKinds) /\ [][NextScan]_vars

(***************************************************************************)
(* Properties of SpecScan.                                                 *)
(***************************************************************************)
Scanned == scan.pc = "scanning" /\ scan.duration_index > 0

\* The voice as it was before the last scan, and as it is after it.
VoiceBefore == NodeAt(scan.before, ScanVoicePath(scan.before))

VoiceAfter == NodeAt(tree, ScanVoicePath(scan.before))

\* The element at position i of the voice is the second chord of a
\* two-chord tremolo: the loop passes it without looking at its duration.
SecondOfTremolo(voice, i) ==
    \E a \in 1..(i - 1) :
        IsTremoloC(voice, a) /\ get_next_chord(voice, a) = i

\* The element is a grace note: it has a child that names a kind of one.
IsGrace(n) ==
    \E k \in 1..Len(n.kids) :
        n.kids[k].tag \in {"grace4", "acciaccatura", "appoggiatura",
                           "grace8after", "grace16", "grace16after",
                           "grace32", "grace32after"}

\* The time the element at position i takes off the measure: that of a
\* chord or rest which is neither a grace note nor the second chord of a
\* tremolo; nothing for any other element.
TimeOf(voice, i, T) ==
    IF /\ voice.kids[i].tag \in {"Chord", "Rest"}
       /\ ~IsGrace(voice.kids[i])
       /\ ~SecondOfTremolo(voice, i)
    THEN SpanOf(voice.kids[i], T)
    ELSE QInt(0)

\* The time at which the element at position i starts, and ends.
RECURSIVE StartOf(_, _, _)
StartOf(voice, i, T) ==
    IF i = 1 THEN QInt(0)
    ELSE QAdd(StartOf(voice, i - 1, T), TimeOf(voice, i - 1, T))

EndOf(voice, i, T) == QAdd(StartOf(voice, i, T), TimeOf(voice, i, T))

\* The first position of the set, the length of the voice plus one when
\* the set is empty.
FirstOf(voice, S) ==
    IF S = {} THEN Len(voice.kids) + 1
    ELSE CHOOSE i \in S : \A j \in S : i <= j

\* The elements that take time off the measure and end, or start, exactly
\* at the cutoff q.
EndingAt(voice, q, T) ==
    { i \in 1..Len(voice.kids) :
        TimeOf(voice, i, T) # QInt(0) /\ EndOf(voice, i, T) = q }

StartingAt(voice, q, T) ==
    { i \in 1..Len(voice.kids) :
        TimeOf(voice, i, T) # QInt(0) /\ StartOf(voice, i, T) = q }

RECURSIVE HiddenIds(_)
HiddenIds(t) ==
    (IF is_visible(t) THEN {} ELSE {t.id})
      \cup UNION { HiddenIds(t.kids[i]) : i \in 1..Len(t.kids) }

RECURSIVE LockedIds(_)
LockedIds(t) ==
    (IF t.locked THEN {t.id} ELSE {})
      \cup UNION { LockedIds(t.kids[i]) : i \in 1..Len(t.kids) }

\* The locked elements of the subtree are its Measures and the elements
\* with an identity of S.
RECURSIVE LockedAre(_, _)
LockedAre(n, S) ==
    /\ n.locked <=> (n.tag = "Measure" \/ n.id \in S)
    /\ \A i \in 1..Len(n.kids) : LockedAre(n.kids[i], S)

\* The elements the baseline pass has hidden, in a run whose first frame
\* is the empty one (yielded right after the pass).
HiddenByBaseline ==
    IF frames # <<>> /\ frames[1].what = "empty"
    THEN HiddenIds(Deref(frames[1])) \ amusing.hidden
    ELSE {}

\* C15: every node hidden by invisibilize() in the baseline pass is locked
\* when the pass ends, and no later set_visible / set_visible_all makes it
\* visible again.
C15_BaselineHiddenLocked ==
    /\ gen.pc = "begin" => HiddenIds(tree) \subseteq LockedIds(tree)
    /\ HiddenByBaseline \cap VisibleIds(tree) = {}
    /\ \A k \in 1..Len(frames) : HiddenByBaseline \cap frames[k].shown = {}

\* C15 as the pass has it: the baseline pass locks the elements that were
\* hidden before it and no others (a Measure is locked from its
\* construction); what it hides itself, every element of the measures
\* with a tag of INVISIBILIZE, is left unlocked, and the reveals that
\* follow make it visible again: when the run is over the hidden elements
\* are those that were hidden in the document as read.
C15_BaselineHiddenUnlocked ==
    /\ LockedAre(tree, IF gen.pc = "created" THEN {} ELSE amusing.hidden)
    /\ gen.pc = "begin" => AllHidden(tree)
    /\ gen.pc = "begin" =>
          (HiddenIds(tree) \ amusing.hidden) \cap LockedIds(tree) = {}
    /\ HiddenByBaseline \cap LockedIds(tree) = {}
    /\ Done => HiddenIds(tree) = amusing.hidden
    /\ Done => HiddenByBaseline \subseteq frames[Len(frames)].shown

\* C15 witness: a run is over whose baseline pass has hidden elements, next
\* to an element that was hidden before it.
C15_Witness ==
    /\ Done
    /\ amusing.hidden # {}
    /\ HiddenByBaseline # {}
    /\ HiddenByBaseline \subseteq VisibleIds(tree)

\* The positions of the grace notes the last scan has visited.
VisitedGrace ==
    { i \in 1..Len(VoiceBefore.kids) :
        i <= scan.stop /\ IsGrace(VoiceBefore.kids[i]) }

\* The elements of a subtree, markers apart, and the visible ones of them.
ElementIds(n) == { x.id : x \in { y \in NodesOf(n) : y.tag # "visible" } }

ShownIds(n) ==
    { x.id : x \in { y \in NodesOf(n) : y.tag # "visible" /\ is_visible(y) } }

\* The position the scan stops at when the grace notes take no time.
StopPastCutoff ==
    FirstOf(VoiceBefore,
            { i \in 1..Len(VoiceBefore.kids) :
                QLt(QAdd(scan.max_duration, Epsilon),
                    EndOf(VoiceBefore, i, scan.time_sig)) })

\* C16: when the scan visits a grace note, the cursor is not advanced and
\* the grace note and its descendants are as visible after the scan as
\* they were before it.
C16_GraceUntouched ==
    Scanned =>
        \A i \in VisitedGrace :
            /\ scan.stop # i
            /\ scan.stop = StopPastCutoff
            /\ ShownIds(VoiceAfter.kids[i]) = ShownIds(VoiceBefore.kids[i])

\* C16 as the loop has it: when the scan visits a grace note, the cursor is
\* not advanced (the scan does not stop at the grace note, and stops where
\* the durations of the other elements make it stop), and the grace note
\* and all its descendants that are not locked are visible after the scan,
\* revealed by the set_visible_all at the top of the loop body.
C16_GraceRevealed ==
    Scanned =>
        \A i \in VisitedGrace :
            /\ scan.stop # i
            /\ scan.stop = StopPastCutoff
            /\ ElementIds(VoiceAfter.kids[i]) = ElementIds(VoiceBefore.kids[i])
            /\ \A x \in NodesOf(VoiceAfter.kids[i]) :
                  x.locked \/ is_visible(x)

\* C16 witness: a scan has visited a grace note that was hidden before it,
\* and has stopped at the chord after it.
C16_Witness ==
    /\ Scanned
    /\ \E i \in VisitedGrace :
          /\ ShownIds(VoiceBefore.kids[i]) # ElementIds(VoiceBefore.kids[i])
          /\ scan.stop = i + 1

(***************************************************************************)
(* Further properties of SpecTree.                                         *)
(***************************************************************************)
\* The number of 'visible' children of an element.
MarkerCount(n) ==
    Cardinality({ i \in 1..Len(n.kids) : n.kids[i].tag = "visible" })

\* C17: on an unlocked element, whatever its 'visible' children are (none,
\* one with text '0', one with another text), is_visible() is false after
\* set_invisible() and true after set_visible(); and no sequence of calls
\* leaves an element with more than one 'visible' child beyond those it
\* had as parsed (an element of the fragment is parsed with at most one).
C17_CallsSetVisibility ==
    /\ [][\A p \in PathsOf(tree) :
            ~NodeAt(tree, p).locked =>
                /\ SetInvisible(p) => ~is_visible(NodeAt(tree', p))
                /\ SetVisible(p) => is_visible(NodeAt(tree', p))]_vars
    /\ [](\A n \in NodesOf(tree) : MarkerCount(n) <= 2)

(***************************************************************************)
(* SpecPoolFair: generate_frames under scheduling.  The main thread keeps  *)
(* running while it has a step to take (a poll that finds no idle slot and *)
(* a join on a live thread wait), and every started thread keeps running   *)
(* until its _convert returns or raises.                                   *)
(***************************************************************************)
MainThread == Baseline \/ Generate \/ Dispatch \/ Join \/ Cleanup

SpecPoolFair ==
    /\ SpecPool
    /\ WF_vars(MainThread)
    /\ \A k \in 2..(MaxFrames + 1) :
          WF_vars(k <= Len(workers) /\ Worker(k))

\* C18: for every pool size N and every number M of frames, M < N
\* included, once the baseline conversion has returned and the dispatch
\* loop has begun, generate_frames eventually has joined all N slots and
\* is at the temp cleanup, no exception having ended the main thread.
C18_ReachesCleanup ==
    (mpc = "next") ~> (mpc = "cleanup" /\ joined = run.threads)

(***************************************************************************)
(* Further properties of SpecScan.                                         *)
(***************************************************************************)
\* The positions of the voice after the one the last scan stopped at.
AfterStop == (scan.stop + 1)..Len(VoiceBefore.kids)

\* The element at position i, with all its descendants, is as visible
\* after the last scan as it was before it.
SameVisibility(i) ==
    /\ ElementIds(VoiceAfter.kids[i]) = ElementIds(VoiceBefore.kids[i])
    /\ ShownIds(VoiceAfter.kids[i]) = ShownIds(VoiceBefore.kids[i])

\* The position of the second chord of the tremolo that the stopping
\* element carries: the first Chord after it; 0 when the scan ran to the
\* end of the voice or the stopping element carries no two-chord tremolo.
SecondOfStop ==
    IF scan.stop > Len(VoiceBefore.kids) THEN 0
    ELSE IF ~IsTremoloC(VoiceBefore, scan.stop) THEN 0
    ELSE FirstOf(VoiceBefore,
                 { i \in AfterStop : VoiceBefore.kids[i].tag = "Chord" })

\* C19: one scan of a voice at a cutoff leaves every element positioned
\* after the stopping element, and all its descendants, as visible as it
\* was before the scan, also when the stopping element is a chord that
\* carries a two-chord tremolo.
C19_AfterStopUnchanged ==
    Scanned => \A i \in AfterStop : SameVisibility(i)

\* C19 as the scan has it: every element positioned after the stopping
\* element is as visible after the scan as before it, except the second
\* chord of a two-chord tremolo that the stopping element carries, which
\* _visibilize_tremolo shows or hides though it comes after the stopping
\* element.
C19_AfterStopUnchangedButPair ==
    Scanned => \A i \in AfterStop : i # SecondOfStop => SameVisibility(i)

\* C19 witness: a scan has stopped at the first chord of a two-chord
\* tremolo and has changed the second chord, and a hidden element comes
\* after the pair.
C19_Witness ==
    /\ Scanned
    /\ SecondOfStop # 0
    /\ ~SameVisibility(SecondOfStop)
    /\ \E i \in AfterStop :
          /\ i > SecondOfStop
          /\ ShownIds(VoiceBefore.kids[i]) # ElementIds(VoiceBefore.kids[i])

(***************************************************************************)
(* The end barlines (SpecSeq).                                             *)
(***************************************************************************)
\* The last measure of staff j.
LastMeasure(t, j) == Staves(t)[j][Len(Staves(t)[j])]

\* The BarLine elements in a measure, and those with an 'end' subtype.
BarLines(m) == { n \in NodesOf(m) : n.tag = "BarLine" }

EndBarLines(m) ==
    { n \in BarLines(m) : ChildText(n, "subtype") = "end" }

\* C20: the step that makes the final frame gives a staff's last measure a
\* BarLine with an 'end' subtype child only if the measure contains no
\* BarLine, and leaves a last measure that contains one as it is; every
\* staff's last measure contains exactly one BarLine in the final frame
\* (it has at most one in the document as read).
C20_EndBarlineOnlyIfNone ==
    /\ [][Final =>
            \A j \in 1..Len(Staves(tree)) :
                LET before == NodeAt(tree, LastMeasure(tree, j))
                    after  == NodeAt(tree', LastMeasure(tree, j))
                IN  IF BarLines(before) # {}
                    THEN after = before
                    ELSE /\ Cardinality(BarLines(after)) = 1
                         /\ EndBarLines(after) = BarLines(after)]_vars
    /\ [](Done =>
            \A j \in 1..Len(Staves(tree)) :
                /\ Cardinality(BarLines(NodeAt(tree, LastMeasure(tree, j)))) = 1
                /\ Cardinality(BarLines(NodeAt(Deref(frames[Len(frames)]),
                                               LastMeasure(tree, j)))) = 1)

\* The elements of the subtree at p that are not locked.
UnlockedIds(t, p) ==
    { n.id : n \in { x \in NodesOf(NodeAt(t, p)) : ~x.locked } }

\* C21: set_invisible_all() with no tag filter returns, on any subtree;
\* every unlocked element of the subtree as it was is then hidden, and the
\* tree has grown by at most one 'visible' marker for each element the
\* subtree had.
C21_HideAllReturns ==
    [][\A p \in PathsOf(tree) :
          SetInvisibleAll(p, AnyTag) =>
              /\ ~hung'
              /\ UnlockedIds(tree, p) \cap VisibleIds(tree') = {}
              /\ SizeOf(tree') - SizeOf(tree) <= SizeOf(NodeAt(tree, p))]_vars

(***************************************************************************)
(* The order of the reveal (SpecSeq).                                      *)
(***************************************************************************)
\* The elements of the measures with index j (from 0), on every staff.
MeasureIds(t, j) ==
    UNION { IdsOf(NodeAt(t, Staves(t)[s][j + 1])) : s \in 1..Len(Staves(t)) }

\* Every unlocked element of measure index j was visible when frame k was
\* yielded.
RevealedIn(k, j) ==
    (MeasureIds(tree, j) \cap IdsOf(Deref(frames[k]))) \ LockedIds(tree)
        \subseteq frames[k].shown

\* Every element of measure index j was, when frame k was yielded, as
\* visible as the baseline pass had left it.
BaselineIn(k, j) ==
    MeasureIds(tree, j) \cap frames[k].shown
        = MeasureIds(tree, j) \cap gen.baseline

\* C22: in a frame yielded while measure index i is processed (an animated
\* frame) or right after it (the frame of its page break), every unlocked
\* element of every measure before i is visible, on every staff, job or
\* not, and every element of every measure after i is as visible as the
\* baseline pass left it; in the final frame every unlocked element of
\* every measure is visible.
C22_RevealInDocumentOrder ==
    \A k \in 1..Len(frames) :
        /\ frames[k].what \in {"animated", "newpage"} =>
              \A j \in 0..(MeasureCount - 1) :
                  /\ j < frames[k].measure_index => RevealedIn(k, j)
                  /\ j > frames[k].measure_index => BaselineIn(k, j)
        /\ frames[k].what = "final" =>
              \A j \in 0..(MeasureCount - 1) : RevealedIn(k, j)

\* C22 witness: a run of a two-measure score with elements hidden as read
\* is over; it has yielded an animated frame in the first measure, with
\* the second as the baseline pass left it, elements of it hidden, and an
\* animated frame in the second measure.
C22_Witness ==
    /\ Done
    /\ MeasureCount >= 2
    /\ amusing.hidden # {}
    /\ \E k \in 1..Len(frames) :
          /\ frames[k].what = "animated"
          /\ frames[k].measure_index = 0
          /\ MeasureIds(tree, 1) \cap gen.baseline # MeasureIds(tree, 1)
    /\ \E k \in 1..Len(frames) :
          /\ frames[k].what = "animated"
          /\ frames[k].measure_index = 1

(***************************************************************************)
(* Properties of SpecScanOffsets.                                          *)
(***************************************************************************)
\* The measure that is scanned has no tremolo.
NoTremolo(t) ==
    \A n \in NodesOf(NodeAt(t, ScanMeasure(t))) : n.tag # "Tremolo"

\* The positions of the voice at which a location takes the cursor back.
BackAt(voice) ==
    { i \in 1..Len(voice.kids) :
        /\ voice.kids[i].tag = "location"
        /\ ChildText(voice.kids[i], "fractions")[1] = "-" }

\* C23: in a job measure without a tremolo, from one animated frame to the
\* next (the cutoffs increase) every element that is visible stays
\* visible (the 'visible' markers, which a reveal removes, apart), and the
\* scan of the voice does not stop at an earlier element
\* than the scan before it, also when location elements take the cursor
\* back.
C23_RevealGrowsWithCutoff ==
    [][(/\ Scan
        /\ scan.duration_index > 0
        /\ NoTremolo(tree)
        /\ QLt(scan.max_duration, scan'.max_duration)) =>
          /\ ShownIds(tree) \subseteq ShownIds(tree')
          /\ scan'.stop >= scan.stop]_vars

\* C23 witness: the second or a later scan of a measure without a tremolo
\* has gone past a location that takes the cursor back, has stopped at a
\* later element than that location and has revealed elements that the
\* frame before it did not show.
C23_Witness ==
    /\ Scanned
    /\ scan.duration_index >= 2
    /\ NoTremolo(tree)
    /\ \E i \in BackAt(VoiceBefore) : i < scan.stop
    /\ scan.stop <= Len(VoiceBefore.kids)
    /\ ShownIds(tree) # ShownIds(scan.before)

=============================================================================
